---- MODULE Spec2Model ----
(***************************************************************************)
(* ESG platform: the metrics engine (calculateESGMetrics), the per-year    *)
(* questionnaire form (ESGForm) with its validation rules, the             *)
(* questionnaire page's save path and the /api/responses handlers over the *)
(* ESGResponse table.                                                      *)
(*                                                                         *)
(* JavaScript values are records [t, n, d]: t is the kind ("undefined",    *)
(* "null", "boolean", "number", "NaN", "Infinity"); a finite number is the *)
(* rational n/d in lowest terms with d > 0; Infinity carries its sign in   *)
(* n.  Finite arithmetic is exact: IEEE rounding and overflow of finite    *)
(* operands are outside the model, the special values are inside it.       *)
(***************************************************************************)
EXTENDS Integers, Sequences, FiniteSets, TLC

VARIABLES
    yearData,        \* ESGForm: useState<ESGData> of the mounted per-year form
    calculatedData,  \* ESGForm: useState<ESGData> of the auto-calculated metrics
    fieldErrors,     \* ESGForm: useState<FieldErrors>, field -> message
    lastSubmit,      \* ESGForm.handleSubmit: its latest run (the record it read,
                     \* the errors array it built, the onSubmit call it made)
    activeYear,      \* QuestionnairePage: the year whose form is mounted
    isSubmitting,    \* QuestionnairePage: useState(false)
    submitError,     \* QuestionnairePage: useState<string | null>, "" for null
    submitSuccess,   \* QuestionnairePage: useState(false)
    initialFetchedData, \* QuestionnairePage: year -> ESGData as last fetched
    authToken,       \* localStorage 'authToken'
    pagePc,          \* QuestionnairePage.handleSubmit: where the async handler waits
    request,         \* the HTTP request in flight from the page
    response,        \* the HTTP response on its way back to the page
    store,           \* ESGResponse table: the set of its rows
    lastApi,         \* latest request of a direct API client, with its answer
    edits,           \* number of handleInputChange calls so far
    users,           \* User table: the set of its rows
    authCalls,       \* signup and login requests, each at its await or answered
    now,             \* the server's clock, Date.now() in milliseconds
    issued,          \* the tokens generateToken has returned, each with its time
    lastVerify,      \* latest call of verifyToken, with its result
    saveCalls,       \* POST /api/responses requests whose upserts run concurrently
    years,           \* QuestionnairePage: useState<number[]>([])
    isAddingYear,    \* QuestionnairePage: useState(false), the add-year dialog
    newYearInput,    \* QuestionnairePage: useState<string>('')
    newYearError,    \* QuestionnairePage: useState<string | null>, "" for null
    isLoading,       \* QuestionnairePage: useState(true)
    location,        \* the route the browser shows
    removeCalls      \* QuestionnairePage.handleRemoveYear: its calls, each with the
                     \* years and activeYear of the render that created it

vars == <<yearData, calculatedData, fieldErrors, lastSubmit, activeYear,
          isSubmitting, submitError, submitSuccess, initialFetchedData, authToken,
          pagePc, request, response, store, lastApi, edits,
          users, authCalls, now, issued, lastVerify, saveCalls,
          years, isAddingYear, newYearInput, newYearError, isLoading, location,
          removeCalls>>

formVars == <<yearData, calculatedData, fieldErrors, lastSubmit, edits>>

authVars == <<users, authCalls, now, issued, lastVerify>>

serverVars == <<authVars, saveCalls>>

yearVars == <<years, isAddingYear, newYearInput, newYearError, isLoading, location,
              removeCalls>>

pageVars == <<activeYear, isSubmitting, submitError, submitSuccess,
              initialFetchedData, authToken, pagePc, request, response>>

----------------------------------------------------------------------------
(* JavaScript values *)

Undefined == [t |-> "undefined", n |-> 0, d |-> 1]
Null == [t |-> "null", n |-> 0, d |-> 1]
NaN == [t |-> "NaN", n |-> 0, d |-> 1]
PosInfinity == [t |-> "Infinity", n |-> 1, d |-> 1]
NegInfinity == [t |-> "Infinity", n |-> -1, d |-> 1]
True == [t |-> "boolean", n |-> 1, d |-> 1]
False == [t |-> "boolean", n |-> 0, d |-> 1]

Abs(x) == IF x < 0 THEN -x ELSE x

RECURSIVE GCD(_, _)
GCD(a, b) == IF b = 0 THEN a ELSE GCD(b, a % b)

\* The finite number n/d (d # 0), in lowest terms with a positive denominator.
Rat(n, d) ==
    LET s == IF d < 0 THEN -1 ELSE 1
        g == GCD(Abs(n), Abs(d))
    IN  [t |-> "number", n |-> (s * n) \div g, d |-> Abs(d) \div g]

Int2Num(k) == [t |-> "number", n |-> k, d |-> 1]

\* typeof v === 'number'
TypeofNumber(v) == v.t \in {"number", "NaN", "Infinity"}

\* v == null (loose): null or undefined
IsNullish(v) == v.t \in {"undefined", "null"}

\* Number.isFinite(v)
IsFinite(v) == v.t = "number"

\* Number.isInteger(v)
NumberIsInteger(v) == v.t = "number" /\ v.d = 1

\* isNaN(v) for a number v
IsNaN(v) == v.t = "NaN"

\* The sign of a number that is not NaN: -1, 0 or 1.
Sign(v) == IF v.n < 0 THEN -1 ELSE IF v.n > 0 THEN 1 ELSE 0

\* a < b on numbers (IEEE: false when either is NaN).
JsLt(a, b) ==
    IF a.t = "NaN" \/ b.t = "NaN" THEN FALSE
    ELSE IF a.t = "Infinity" THEN a.n < 0 /\ ~(b.t = "Infinity" /\ b.n < 0)
    ELSE IF b.t = "Infinity" THEN b.n > 0
    ELSE a.n * b.d < b.n * a.d

\* a === b on numbers (NaN equals nothing).
JsNumEq(a, b) == a.t # "NaN" /\ b.t # "NaN" /\ a = b

JsGt(a, b) == JsLt(b, a)
JsLe(a, b) == JsLt(a, b) \/ JsNumEq(a, b)

\* v !== 0 (strict): true for every value but the number 0.
NotStrictZero(v) == ~(v.t = "number" /\ v.n = 0)

\* a / b on numbers, IEEE 754 special cases included.
JsDiv(a, b) ==
    IF a.t = "NaN" \/ b.t = "NaN" THEN NaN
    ELSE IF a.t = "Infinity"
         THEN IF b.t = "Infinity" THEN NaN
              ELSE IF a.n * (IF b.n < 0 THEN -1 ELSE 1) > 0 THEN PosInfinity
              ELSE NegInfinity
    ELSE IF b.t = "Infinity" THEN Int2Num(0)
    ELSE IF b.n = 0
         THEN IF a.n = 0 THEN NaN
              ELSE IF a.n > 0 THEN PosInfinity ELSE NegInfinity
    ELSE Rat(a.n * b.d, a.d * b.n)

\* a * b on numbers, IEEE 754 special cases included.
JsMul(a, b) ==
    IF a.t = "NaN" \/ b.t = "NaN" THEN NaN
    ELSE IF a.t = "Infinity" \/ b.t = "Infinity"
         THEN IF Sign(a) * Sign(b) = 0 THEN NaN
              ELSE IF Sign(a) * Sign(b) > 0 THEN PosInfinity
              ELSE NegInfinity
    ELSE Rat(a.n * b.n, a.d * b.d)

----------------------------------------------------------------------------
(* ESGData (src/types/esg.ts): every field optional; an absent key reads   *)
(* as undefined.                                                           *)

NumericRawFields ==
    {"totalElectricityConsumption", "renewableElectricityConsumption",
     "totalFuelConsumption", "carbonEmissions", "totalEmployees",
     "femaleEmployees", "averageTrainingHours", "communityInvestment",
     "independentBoardMembers", "totalRevenue"}

RawFields == NumericRawFields \cup {"hasDataPrivacyPolicy"}

DerivedFields ==
    {"carbonIntensity", "renewableElectricityRatio", "diversityRatio",
     "communitySpendRatio"}

ESGFields == RawFields \cup DerivedFields

\* const x: ESGData = {}
EmptyData == [f \in ESGFields |-> Undefined]

\* { ...a, ...b }: the keys b holds override those of a.
Spread(a, b) == [f \in DOMAIN a |-> IF f \in DOMAIN b THEN b[f] ELSE a[f]]

----------------------------------------------------------------------------
(* calculateESGMetrics (src/utils/esgCalculations.ts) *)

CarbonIntensityNoZeroGuard(data) ==
    IF ~IsNullish(data.carbonEmissions) /\ ~IsNullish(data.totalRevenue)
    THEN JsDiv(data.carbonEmissions, data.totalRevenue)
    ELSE Null

CarbonIntensity(data) ==
    IF /\ ~IsNullish(data.carbonEmissions)
       /\ ~IsNullish(data.totalRevenue)
       /\ NotStrictZero(data.totalRevenue)
    THEN JsDiv(data.carbonEmissions, data.totalRevenue)
    ELSE Null

RenewableElectricityRatio(data) ==
    IF /\ ~IsNullish(data.renewableElectricityConsumption)
       /\ ~IsNullish(data.totalElectricityConsumption)
       /\ NotStrictZero(data.totalElectricityConsumption)
    THEN JsMul(Int2Num(100),
               JsDiv(data.renewableElectricityConsumption,
                     data.totalElectricityConsumption))
    ELSE Null

\* Variant: the diversity ratio divides by the revenue, not by the headcount.
DiversityRatioWrongDivisor(data) ==
    IF /\ ~IsNullish(data.femaleEmployees)
       /\ ~IsNullish(data.totalRevenue)
       /\ NotStrictZero(data.totalRevenue)
    THEN JsMul(Int2Num(100), JsDiv(data.femaleEmployees, data.totalRevenue))
    ELSE Null

DiversityRatio(data) ==
    IF /\ ~IsNullish(data.femaleEmployees)
       /\ ~IsNullish(data.totalEmployees)
       /\ NotStrictZero(data.totalEmployees)
    THEN JsMul(Int2Num(100), JsDiv(data.femaleEmployees, data.totalEmployees))
    ELSE Null

CommunitySpendRatio(data) ==
    IF /\ ~IsNullish(data.communityInvestment)
       /\ ~IsNullish(data.totalRevenue)
       /\ NotStrictZero(data.totalRevenue)
    THEN JsMul(Int2Num(100), JsDiv(data.communityInvestment, data.totalRevenue))
    ELSE Null

calculateESGMetrics(data) ==
    [carbonIntensity |-> CarbonIntensity(data),
     renewableElectricityRatio |-> RenewableElectricityRatio(data),
     diversityRatio |-> DiversityRatio(data),
     communitySpendRatio |-> CommunitySpendRatio(data)]

\* Variant: the metrics are written into the argument, which is returned.
calculateESGMetricsInPlace(data) ==
    [data |-> Spread(data, calculateESGMetrics(data)),
     calculatedData |-> Spread(data, calculateESGMetrics(data))]

\* A call of calculateESGMetrics(data) as its caller sees it: the object it
\* passed, after the call, and the object it got back (const calculatedData
\* = {}, four assignments to it, return calculatedData).
calculateESGMetricsCall(data) ==
    [data |-> data, calculatedData |-> calculateESGMetrics(data)]

----------------------------------------------------------------------------
(* parseFloat on a string given as its sequence of characters.  The        *)
(* longest prefix that is a decimal literal is converted; an exponent part *)
(* is not in the input alphabet.                                           *)

DigitChars == <<"0", "1", "2", "3", "4", "5", "6", "7", "8", "9">>

IsDigit(c) == \E i \in 1..Len(DigitChars) : DigitChars[i] = c

DigitValue(c) == (CHOOSE i \in 1..Len(DigitChars) : DigitChars[i] = c) - 1

RECURSIVE Pow10(_)
Pow10(k) == IF k = 0 THEN 1 ELSE 10 * Pow10(k - 1)

\* The first index >= i of s that holds no digit (Len(s) + 1 when none).
RECURSIVE DigitsEnd(_, _)
DigitsEnd(s, i) ==
    IF i <= Len(s) /\ IsDigit(s[i]) THEN DigitsEnd(s, i + 1) ELSE i

\* The value of the digits s[i..j-1] read in base 10, after the value acc.
RECURSIVE DigitsValue(_, _, _, _)
DigitsValue(s, i, j, acc) ==
    IF i >= j THEN acc ELSE DigitsValue(s, i + 1, j, 10 * acc + DigitValue(s[i]))

RECURSIVE SkipSpaces(_, _)
SkipSpaces(s, i) == IF i <= Len(s) /\ s[i] = " " THEN SkipSpaces(s, i + 1) ELSE i

InfinityChars == <<"I", "n", "f", "i", "n", "i", "t", "y">>

StartsWith(s, i, w) ==
    /\ i + Len(w) - 1 <= Len(s)
    /\ \A k \in 1..Len(w) : s[i + k - 1] = w[k]

parseFloat(s) ==
    LET i0 == SkipSpaces(s, 1)
        hasSign == i0 <= Len(s) /\ s[i0] \in {"-", "+"}
        sign == IF hasSign /\ s[i0] = "-" THEN -1 ELSE 1
        i1 == IF hasSign THEN i0 + 1 ELSE i0
        i2 == DigitsEnd(s, i1)
        hasDot == i2 <= Len(s) /\ s[i2] = "."
        f1 == IF hasDot THEN i2 + 1 ELSE i2
        f2 == IF hasDot THEN DigitsEnd(s, f1) ELSE i2
        intDigits == i2 - i1
        fracDigits == f2 - f1
        scale == Pow10(fracDigits)
    IN  IF StartsWith(s, i1, InfinityChars)
        THEN (IF sign < 0 THEN NegInfinity ELSE PosInfinity)
        ELSE IF intDigits + fracDigits = 0 THEN NaN
        ELSE Rat(sign * (DigitsValue(s, i1, i2, 0) * scale
                          + DigitsValue(s, f1, f2, 0)),
                 scale)

----------------------------------------------------------------------------
(* ESGForm (src/components/esg/ESGForm.tsx, the per-year form): validation *)
(* rules of handleSubmit.  A message is the sequence of the string pieces  *)
(* its template literal concatenates.                                      *)

getFieldLabel(field) ==
    CASE field = "totalElectricityConsumption" -> "Total Electricity Consumption (kWh)"
      [] field = "renewableElectricityConsumption" -> "Renewable Electricity Consumption (kWh)"
      [] field = "totalFuelConsumption" -> "Total Fuel Consumption (liters)"
      [] field = "carbonEmissions" -> "Carbon Emissions (T CO2e)"
      [] field = "totalEmployees" -> "Total Number of Employees"
      [] field = "femaleEmployees" -> "Number of Female Employees"
      [] field = "averageTrainingHours" -> "Average Training Hours per Employee (per year)"
      [] field = "communityInvestment" -> "Community Investment Spend (INR)"
      [] field = "independentBoardMembers" -> "% of Independent Board Members"
      [] field = "hasDataPrivacyPolicy" -> "Data Privacy Policy"
      [] field = "totalRevenue" -> "Total Revenue (INR)"
      [] field = "carbonIntensity" -> "Carbon Intensity"
      [] field = "renewableElectricityRatio" -> "Renewable Electricity Ratio"
      [] field = "diversityRatio" -> "Diversity Ratio"
      [] field = "communitySpendRatio" -> "Community Spend Ratio"

Err(field, message) == [field |-> field, message |-> message]

\* fields.forEach(f => { if (violates(f)) errors.push(mk(f)) })
ForEachPush(fields, violates(_), mk(_)) ==
    LET hit == SelectSeq(fields, violates)
    IN  [i \in 1..Len(hit) |-> mk(hit[i])]

requiredFields ==
    <<"totalElectricityConsumption", "renewableElectricityConsumption",
      "totalFuelConsumption", "carbonEmissions", "totalEmployees",
      "femaleEmployees", "averageTrainingHours", "communityInvestment",
      "independentBoardMembers", "totalRevenue">>

RequiredMessage(field) ==
    <<getFieldLabel(field), " is required. Please enter a value (use 0 if applicable).">>

\* Variant: only null counts as missing, an absent (undefined) field passes.
RequiredErrorsNullOnly(yd) ==
    ForEachPush(requiredFields,
                LAMBDA f : yd[f] = Null,
                LAMBDA f : Err(f, RequiredMessage(f)))

RequiredErrors(yd) ==
    ForEachPush(requiredFields,
                LAMBDA f : yd[f] = Null \/ yd[f] = Undefined,
                LAMBDA f : Err(f, RequiredMessage(f)))

nonNegativeFields ==
    <<"renewableElectricityConsumption", "totalFuelConsumption", "carbonEmissions",
      "communityInvestment", "totalRevenue", "independentBoardMembers">>

NonNegativeMessage(field) ==
    <<getFieldLabel(field), " must be greater than or equal to 0.">>

\* Variant: zero is refused too (value <= 0).
NonNegativeErrorsRefuseZero(yd) ==
    ForEachPush(nonNegativeFields,
                LAMBDA f : /\ yd[f] # Null /\ yd[f] # Undefined
                           /\ TypeofNumber(yd[f]) /\ JsLe(yd[f], Int2Num(0)),
                LAMBDA f : Err(f, NonNegativeMessage(f)))

NonNegativeErrors(yd) ==
    ForEachPush(nonNegativeFields,
                LAMBDA f : /\ yd[f] # Null /\ yd[f] # Undefined
                           /\ TypeofNumber(yd[f]) /\ JsLt(yd[f], Int2Num(0)),
                LAMBDA f : Err(f, NonNegativeMessage(f)))

\* if (v !== null && v !== undefined) if (typeof v === 'number' && v <= 0) push
PositiveErrors(yd, field, message) ==
    IF /\ yd[field] # Null /\ yd[field] # Undefined
       /\ TypeofNumber(yd[field]) /\ JsLe(yd[field], Int2Num(0))
    THEN <<Err(field, <<message>>)>>
    ELSE <<>>

\* Variant: zero passes the count rule (v < 0 in place of v <= 0).
PositiveIntegerErrorsAllowZero(yd, field, positiveMessage, integerMessage) ==
    IF yd[field] # Null /\ yd[field] # Undefined /\ TypeofNumber(yd[field])
    THEN IF JsLt(yd[field], Int2Num(0))
         THEN <<Err(field, <<positiveMessage>>)>>
         ELSE IF ~NumberIsInteger(yd[field])
              THEN <<Err(field, <<integerMessage>>)>>
              ELSE <<>>
    ELSE <<>>

\* if (v !== null && v !== undefined) if (typeof v === 'number')
\*     if (v <= 0) push(positive) else if (!Number.isInteger(v)) push(integer)
PositiveIntegerErrors(yd, field, positiveMessage, integerMessage) ==
    IF yd[field] # Null /\ yd[field] # Undefined /\ TypeofNumber(yd[field])
    THEN IF JsLe(yd[field], Int2Num(0))
         THEN <<Err(field, <<positiveMessage>>)>>
         ELSE IF ~NumberIsInteger(yd[field])
              THEN <<Err(field, <<integerMessage>>)>>
              ELSE <<>>
    ELSE <<>>

SpecialCaseErrors(yd) ==
    PositiveErrors(yd, "totalElectricityConsumption",
                   "Total Electricity Consumption (kWh) must be greater than 0.")
    \o PositiveErrors(yd, "averageTrainingHours",
                      "Average Training Hours per Employee (per year) must be greater than 0.")
    \o PositiveIntegerErrors(yd, "totalEmployees",
                             "Total Number of Employees must be greater than 0.",
                             "Total Number of Employees must be a whole number (integer).")
    \o PositiveIntegerErrors(yd, "femaleEmployees",
                             "Number of Female Employees must be greater than 0.",
                             "Number of Female Employees must be a whole number (integer).")

PrivacyPolicyMessage ==
    <<"Please select an option for \"Does the company have a data privacy policy?\".">>

PrivacyPolicyErrors(yd) ==
    IF yd.hasDataPrivacyPolicy # True /\ yd.hasDataPrivacyPolicy # False
    THEN <<Err("hasDataPrivacyPolicy", PrivacyPolicyMessage)>>
    ELSE <<>>

\* Variant: the pair rule also fires when the two values are equal (>=).
PairErrorsRefuseEqual(yd, first, second, message) ==
    IF /\ ~IsNullish(yd[first])
       /\ ~IsNullish(yd[second])
       /\ (JsGt(yd[first], yd[second]) \/ JsNumEq(yd[first], yd[second]))
    THEN <<Err(first, <<message>>)>>
    ELSE <<>>

\* if (a != null && b != null && a > b) errors.push({ field: a, ... })
PairErrors(yd, first, second, message) ==
    IF /\ ~IsNullish(yd[first])
       /\ ~IsNullish(yd[second])
       /\ JsGt(yd[first], yd[second])
    THEN <<Err(first, <<message>>)>>
    ELSE <<>>

CrossFieldErrors(yd) ==
    PairErrors(yd, "femaleEmployees", "totalEmployees",
               "Number of female employees cannot be greater than total employees.")
    \o PairErrors(yd, "renewableElectricityConsumption", "totalElectricityConsumption",
                  "Renewable electricity consumption cannot be greater than total electricity consumption.")
    \o PairErrors(yd, "communityInvestment", "totalRevenue",
                  "Community investment spend cannot be greater than total revenue.")

BoardRangeMessage == <<"% of independent board members must be between 0 and 100.">>

\* Variant: the upper bound is exclusive (>= 100 is refused).
BoardRangeErrorsExclusive(yd) ==
    IF /\ ~IsNullish(yd.independentBoardMembers)
       /\ \/ JsLt(yd.independentBoardMembers, Int2Num(0))
          \/ ~JsLt(yd.independentBoardMembers, Int2Num(100))
    THEN <<Err("independentBoardMembers", BoardRangeMessage)>>
    ELSE <<>>

BoardRangeErrors(yd) ==
    IF /\ ~IsNullish(yd.independentBoardMembers)
       /\ \/ JsLt(yd.independentBoardMembers, Int2Num(0))
          \/ JsGt(yd.independentBoardMembers, Int2Num(100))
    THEN <<Err("independentBoardMembers", BoardRangeMessage)>>
    ELSE <<>>

\* Variant: validation stops at the first violation (fail-fast).
ValidationErrorsFailFast(yd) ==
    LET all == RequiredErrors(yd) \o NonNegativeErrors(yd) \o SpecialCaseErrors(yd)
               \o PrivacyPolicyErrors(yd) \o CrossFieldErrors(yd) \o BoardRangeErrors(yd)
    IN  IF all = <<>> THEN <<>> ELSE <<all[1]>>

\* The errors array handleSubmit has built when it reaches its length test.
ValidationErrors(yd) ==
    RequiredErrors(yd) \o NonNegativeErrors(yd) \o SpecialCaseErrors(yd)
    \o PrivacyPolicyErrors(yd) \o CrossFieldErrors(yd) \o BoardRangeErrors(yd)

\* Variant: the first message pushed for a field is kept (no overwrite).
NewFieldErrorsFirstWins(errs) ==
    [f \in {errs[i].field : i \in DOMAIN errs} |->
        LET first == CHOOSE i \in DOMAIN errs :
                        /\ errs[i].field = f
                        /\ \A j \in DOMAIN errs : errs[j].field = f => i <= j
        IN  errs[first].message]

\* errors.forEach(err => { newFieldErrors[err.field] = err.message })
NewFieldErrors(errs) ==
    [f \in {errs[i].field : i \in DOMAIN errs} |->
        LET last == CHOOSE i \in DOMAIN errs :
                       /\ errs[i].field = f
                       /\ \A j \in DOMAIN errs : errs[j].field = f => j <= i
        IN  errs[last].message]

----------------------------------------------------------------------------
(* Strings of digits: String(n) for a year, parseInt(s, 10), and JSON.     *)

RECURSIVE NumberToString(_)
NumberToString(k) ==
    IF k < 10 THEN <<DigitChars[k + 1]>>
    ELSE NumberToString(k \div 10) \o <<DigitChars[(k % 10) + 1]>>

\* parseInt(s, 10): the longest prefix <sign><digits>; NaN when no digit.
parseInt(s) ==
    LET i0 == SkipSpaces(s, 1)
        hasSign == i0 <= Len(s) /\ s[i0] \in {"-", "+"}
        sign == IF hasSign /\ s[i0] = "-" THEN -1 ELSE 1
        i1 == IF hasSign THEN i0 + 1 ELSE i0
        i2 == DigitsEnd(s, i1)
    IN  IF i2 = i1 THEN NaN ELSE Int2Num(sign * DigitsValue(s, i1, i2, 0))

\* JSON.stringify then JSON.parse of one property value: an undefined
\* property is dropped, NaN and the infinities are written as null.
JsonValue(v) ==
    IF v.t \in {"NaN", "Infinity"} THEN Null ELSE v

JsonData(data) == [f \in DOMAIN data |-> JsonValue(data[f])]

----------------------------------------------------------------------------
(* Credentials (src/utils/auth.ts) as far as the handlers use them: a      *)
(* token names its subject and verifies or not.                            *)

Users == {"alice", "bob"}

NoUser == ""

Token(sub, ok) == [sub |-> sub, ok |-> ok]

NoToken == Token(NoUser, FALSE)

\* verifyToken: the subject of a token that verifies, null (NoUser) otherwise.
verifyToken(token) == IF token.ok THEN token.sub ELSE NoUser

NoHeader == [scheme |-> "none", token |-> NoToken]

Bearer(token) == [scheme |-> "Bearer", token |-> token]

\* getTokenFromHeader: null unless the header starts with 'Bearer '.
getTokenFromHeader(header) ==
    IF header.scheme # "Bearer" THEN NoToken ELSE header.token

----------------------------------------------------------------------------
(* Passwords and JSON Web Tokens (src/utils/auth.ts, bcryptjs,             *)
(* jsonwebtoken).  A hash names what it was computed from and is no        *)
(* string; a token names its payload and the key that signed it.           *)

\* bcrypt.hash(password, saltRounds)
hashPassword(password) == [bcrypt |-> password, saltRounds |-> 12]

\* bcrypt.compare(password, hashedPassword)
verifyPassword(password, hashedPassword) == hashedPassword.bcrypt = password

\* process.env.JWT_SECRET
JWT_SECRET_KEY == "JWT_SECRET"

\* expiresIn: 7 days in seconds
ExpiresIn == 7 * 24 * 60 * 60

\* jwt.sign(payload, key, { expiresIn }) at the time nowMs: iat is the time
\* in whole seconds, exp is iat + expiresIn.
jwtSign(userId, key, nowMs) ==
    [kind |-> "jwt", payload |-> "object", hasUserId |-> TRUE, userId |-> userId,
     hasExp |-> TRUE, iat |-> nowMs \div 1000, exp |-> (nowMs \div 1000) + ExpiresIn,
     key |-> key]

\* generateToken(userId) called at the time nowMs
generateToken(userId, nowMs) == jwtSign(userId, JWT_SECRET_KEY, nowMs)

\* Variant: the expiry is not looked at.
jwtVerifyIgnoringExpiry(token, key, nowMs) ==
    IF token.kind # "jwt" THEN [threw |-> TRUE, name |-> "JsonWebTokenError"]
    ELSE IF token.key # key THEN [threw |-> TRUE, name |-> "JsonWebTokenError"]
    ELSE [threw |-> FALSE, name |-> ""]

\* jwt.verify(token, key) at the time nowMs: throws on a string that is no
\* token, on a signature made with another key, and when the time in whole
\* seconds has reached exp; returns the payload otherwise.
jwtVerify(token, key, nowMs) ==
    IF token.kind # "jwt" THEN [threw |-> TRUE, name |-> "JsonWebTokenError"]
    ELSE IF token.key # key THEN [threw |-> TRUE, name |-> "JsonWebTokenError"]
    ELSE IF token.hasExp /\ (nowMs \div 1000) >= token.exp
    THEN [threw |-> TRUE, name |-> "TokenExpiredError"]
    ELSE [threw |-> FALSE, name |-> ""]

\* verifyToken(token) called at the time nowMs: the catch returns null, and
\* so does a payload that is no object or has no userId.
verifyTokenAt(token, nowMs) ==
    IF jwtVerify(token, JWT_SECRET_KEY, nowMs).threw THEN NoUser
    ELSE IF token.payload = "object" /\ token.hasUserId THEN token.userId
    ELSE NoUser

\* The ids Prisma gives to the User rows, in the order of their creation.
UserIds == <<"alice", "bob">>

UserRow(id, name, email, password) ==
    [id |-> id, name |-> name, email |-> email, password |-> password]

\* The accounts of the users who hold the tokens above.
SeedUsers ==
    { UserRow("alice", "A B", "a@b.com", hashPassword("abcdef")),
      UserRow("bob", "C D", "c@d.com", hashPassword("ghijkl")) }

\* A signup or login request: idle, waiting at an await, or answered.
NoAuthCall ==
    [op |-> "none", pc |-> "idle", name |-> "", email |-> "", password |-> "",
     existed |-> FALSE, status |-> 0, error |-> "", userId |-> NoUser,
     userName |-> "", token |-> NoToken]

NoVerify == [ran |-> FALSE, token |-> NoToken, at |-> 0, result |-> NoUser]

----------------------------------------------------------------------------
(* ESGResponse table (prisma/migrations) and the Prisma calls on it.  The  *)
(* table is a set of rows [userId, year, data]; data holds the 15 columns. *)

IntColumns == {"totalEmployees", "femaleEmployees"}

BooleanColumns == {"hasDataPrivacyPolicy"}

\* Prisma validates an argument against the column type before it writes:
\* undefined (leave alone) and null are accepted by every nullable column.
PrismaAccepts(field, v) ==
    \/ IsNullish(v)
    \/ field \in BooleanColumns /\ v.t = "boolean"
    \/ field \in IntColumns /\ NumberIsInteger(v)
    \/ field \notin (BooleanColumns \cup IntColumns) /\ IsFinite(v)

PrismaAcceptsData(data) == \A f \in ESGFields : PrismaAccepts(f, data[f])

RowsOf(rows, userId, year) == {r \in rows : r.userId = userId /\ r.year = year}

\* prisma.eSGResponse.upsert({ where: { userId_year }, update, create })
Upsert(rows, userId, year, prismaData) ==
    IF RowsOf(rows, userId, year) # {}
    THEN {IF r.userId = userId /\ r.year = year
          THEN [r EXCEPT !.data = [f \in ESGFields |->
                                     IF prismaData[f] = Undefined
                                     THEN r.data[f] ELSE prismaData[f]]]
          ELSE r : r \in rows}
    ELSE rows \cup {[userId |-> userId, year |-> year,
                     data |-> [f \in ESGFields |->
                                 IF prismaData[f] = Undefined
                                 THEN Null ELSE prismaData[f]]]}

\* JSON values that are no record of fields: null, a number, a string.
JsonNull == [json |-> "null", chars |-> <<>>]

JsonNumber == [json |-> "number", chars |-> <<>>]

JsonString(chars) == [json |-> "string", chars |-> chars]

IsFieldRecord(esgData) == "json" \notin DOMAIN esgData

\* Object.values(esgData) throws a TypeError on null.
ObjectValuesThrows(esgData) == ~IsFieldRecord(esgData) /\ esgData.json = "null"

\* const prismaData = { <field>: esgData.<field>, ... } for the 15 columns
PrismaData(esgData) ==
    [f \in ESGFields |-> IF IsFieldRecord(esgData) THEN esgData[f] ELSE Undefined]

\* Object.values(esgData).some(value => value !== null && value !== undefined):
\* a number has no values, the values of a string are its characters.
HasData(esgData) ==
    IF IsFieldRecord(esgData)
    THEN \E f \in DOMAIN esgData : ~IsNullish(esgData[f])
    ELSE esgData.json = "string" /\ Len(esgData.chars) > 0

NoBody == [kind |-> "none", entries |-> <<>>]

\* A JSON body { responses: { key: esgData, ... } }, entries in the order
\* Object.entries yields them.
ResponsesBody(entries) == [kind |-> "object", entries |-> entries]

\* A JSON body without a responses property.
MissingResponsesBody == [kind |-> "missing", entries |-> <<>>]

\* A JSON body whose responses property is a string or a number.
ScalarResponsesBody == [kind |-> "scalar", entries |-> <<>>]

\* The loop over Object.entries(responsesData) throws at an entry whose key
\* parses to a year and whose value is null.
LoopThrows(entries) ==
    \E i \in DOMAIN entries :
        ~IsNaN(parseInt(entries[i].key)) /\ ObjectValuesThrows(entries[i].data)

\* The loop over Object.entries(responsesData): the upserts it prepares.
UpsertOps(entries) ==
    LET kept == SelectSeq(entries,
                          LAMBDA e : ~IsNaN(parseInt(e.key)) /\ HasData(e.data))
    IN  [i \in 1..Len(kept) |->
            [year |-> parseInt(kept[i].key).n, data |-> PrismaData(kept[i].data)]]

\* Promise.all(upsertPromises): every upsert Prisma accepts is written.
RECURSIVE ApplyUpserts(_, _, _, _)
ApplyUpserts(rows, userId, ops, i) ==
    IF i > Len(ops) THEN rows
    ELSE ApplyUpserts(IF PrismaAcceptsData(ops[i].data)
                      THEN Upsert(rows, userId, ops[i].year, ops[i].data)
                      ELSE rows,
                      userId, ops, i + 1)

Reply(status, error, responses, rows) ==
    [status |-> status, error |-> error, responses |-> responses, rows |-> rows]

\* export async function POST (src/app/api/responses/route.ts)
PostHandler(rows, header, body) ==
    LET token == getTokenFromHeader(header)
        userId == verifyToken(token)
        ops == UpsertOps(body.entries)
    IN  IF token = NoToken
        THEN Reply(401, "Authentication token required.", <<>>, rows)
        ELSE IF userId = NoUser
        THEN Reply(401, "Invalid or expired token.", <<>>, rows)
        ELSE IF body.kind # "object"
        THEN Reply(400, "Invalid request body. Expected { responses: { [year: number]: ESGData } }.",
                   <<>>, rows)
        ELSE IF LoopThrows(body.entries)
        THEN Reply(500, "Internal server error while saving ESG responses.", <<>>, rows)
        ELSE IF Len(ops) = 0
        THEN Reply(400, "No valid ESG data provided to save.", <<>>, rows)
        ELSE IF \E i \in 1..Len(ops) : ~PrismaAcceptsData(ops[i].data)
        THEN Reply(500, "Internal server error while saving ESG responses.", <<>>,
                   ApplyUpserts(rows, userId, ops, 1))
        ELSE Reply(200, "", <<>>, ApplyUpserts(rows, userId, ops, 1))

\* export async function GET (src/app/api/responses/route.ts)
GetHandler(rows, header) ==
    LET token == getTokenFromHeader(header)
        userId == verifyToken(token)
        mine == {r \in rows : r.userId = userId}
    IN  IF token = NoToken
        THEN Reply(401, "Authentication token required.", <<>>, rows)
        ELSE IF userId = NoUser
        THEN Reply(401, "Invalid or expired token.", <<>>, rows)
        ELSE Reply(200, "",
                   [y \in {r.year : r \in mine} |->
                       (CHOOSE r \in mine : r.year = y).data],
                   rows)

\* Variant: deleteMany without the userId in its where clause.
DeleteHandlerAnyUser(rows, header, yearParam) ==
    LET targetYear == parseInt(yearParam)
        token == getTokenFromHeader(header)
        userId == verifyToken(token)
        ofYear == {r \in rows : r.year = targetYear.n}
    IN  IF IsNaN(targetYear)
        THEN Reply(400, "Invalid year parameter.", <<>>, rows)
        ELSE IF token = NoToken
        THEN Reply(401, "Authentication token required.", <<>>, rows)
        ELSE IF userId = NoUser
        THEN Reply(401, "Invalid or expired token.", <<>>, rows)
        ELSE IF ofYear = {}
        THEN Reply(404, "No ESG data found for this year for this user.", <<>>, rows)
        ELSE Reply(200, "", <<>>, rows \ ofYear)

\* export async function DELETE (src/app/api/responses/[year]/route.ts)
DeleteHandler(rows, header, yearParam) ==
    LET targetYear == parseInt(yearParam)
        token == getTokenFromHeader(header)
        userId == verifyToken(token)
    IN  IF IsNaN(targetYear)
        THEN Reply(400, "Invalid year parameter.", <<>>, rows)
        ELSE IF token = NoToken
        THEN Reply(401, "Authentication token required.", <<>>, rows)
        ELSE IF userId = NoUser
        THEN Reply(401, "Invalid or expired token.", <<>>, rows)
        ELSE IF RowsOf(rows, userId, targetYear.n) = {}
        THEN Reply(404, "No ESG data found for this year for this user.", <<>>, rows)
        ELSE Reply(200, "", <<>>, rows \ RowsOf(rows, userId, targetYear.n))

----------------------------------------------------------------------------
(* Bounds and input sets *)

\* handleInputChange calls in one behaviour
MaxEdits == 1

\* The strings handleInputChange receives for a numeric field.  Numbers are
\* kept as exact fractions here, so no quotient overflows; the last string
\* makes parseFloat return Infinity, the value a double also takes when an
\* operation on finite operands overflows (1e308 / 1e-10).
InputStrings ==
    { <<>>,
      <<"0">>,
      <<"-", "1">>,
      <<"0", ".", "5">>,
      <<"4">>,
      <<"4", "0">>,
      <<"5", "0">>,
      <<"a", "b", "c">>,
      <<"I", "n", "f", "i", "n", "i", "t", "y">> }

\* What the user types into the board-members input besides the above.
BoardInputStrings ==
    { <<"1", "0", "0">>,
      <<"1", "0", "0", ".", "0", "1">>,
      <<"-", "0", ".", "0", "0", "0", "1">> }

InputsFor(field) ==
    IF field = "independentBoardMembers"
    THEN InputStrings \cup BoardInputStrings
    ELSE InputStrings

\* The year whose form is open.
FormYears == {2023}

FormUser == "alice"

\* A record as GET /api/responses returned it for a year saved earlier
\* through the form (the spec's end-to-end example).
SavedRaw ==
    [f \in ESGFields |->
        CASE f = "totalElectricityConsumption" -> Int2Num(1000)
          [] f = "renewableElectricityConsumption" -> Int2Num(400)
          [] f = "totalFuelConsumption" -> Int2Num(0)
          [] f = "carbonEmissions" -> Int2Num(5)
          [] f = "totalEmployees" -> Int2Num(10)
          [] f = "femaleEmployees" -> Int2Num(4)
          [] f = "averageTrainingHours" -> Int2Num(8)
          [] f = "communityInvestment" -> Int2Num(0)
          [] f = "independentBoardMembers" -> Int2Num(100)
          [] f = "hasDataPrivacyPolicy" -> True
          [] f = "totalRevenue" -> Int2Num(1000)
          [] OTHER -> Null]

SavedRecord == Spread(SavedRaw, calculateESGMetrics(SavedRaw))

\* A record as GET /api/responses returned it for a year another client
\* wrote with raw fields only: the table takes any value of the column type.
DraftRecord ==
    [f \in ESGFields |->
        CASE f = "totalElectricityConsumption" -> Int2Num(0)
          [] f = "renewableElectricityConsumption" -> Int2Num(400)
          [] f = "carbonEmissions" -> Int2Num(5)
          [] f = "totalEmployees" -> Int2Num(40)
          [] f = "femaleEmployees" -> Int2Num(50)
          [] f = "averageTrainingHours" -> Int2Num(0)
          [] f = "communityInvestment" -> Int2Num(50)
          [] f = "independentBoardMembers" -> Rat(10001, 100)
          [] f = "totalRevenue" -> Int2Num(0)
          [] OTHER -> Null]

\* initialData[activeYear] of a mounted form: {} for a year just added,
\* the fetched record for a year saved earlier.
InitialRecords == {EmptyData, SavedRecord, DraftRecord}

----------------------------------------------------------------------------
(* Messages between the page and the server *)

NoRequest == [method |-> "none", header |-> NoHeader, body |-> NoBody]

NoResponse == [kind |-> "none", status |-> 0, error |-> "", responses |-> <<>>]

\* The answer of a handler as fetch() resolves it.
HttpResponse(reply) ==
    [kind |-> "http", status |-> reply.status, error |-> reply.error,
     responses |-> reply.responses]

\* fetch() rejected: the request or its answer was lost.
NetworkError == [kind |-> "failed", status |-> 0, error |-> "", responses |-> <<>>]

NoSubmit ==
    [ran |-> FALSE, data |-> EmptyData, errors |-> <<>>, called |-> FALSE,
     arg |-> EmptyData]

NoApi ==
    [method |-> "none", header |-> NoHeader, yearParam |-> <<>>, body |-> NoBody,
     status |-> 0, error |-> "", responses |-> <<>>]

\* useState<number | null>(null) of activeYear
NoYear == 0

\* The state of QuestionnairePage's year list as useState creates it.
YearsUnmounted ==
    /\ years = <<>>
    /\ isAddingYear = FALSE
    /\ newYearInput = <<>>
    /\ newYearError = ""
    /\ isLoading = TRUE
    /\ location = "/questionnaire"
    /\ removeCalls = <<>>

----------------------------------------------------------------------------
(* ESGForm: handlers *)

\* The value handleInputChange stores for a string typed into an input.
ParsedInput(value) ==
    IF value = <<>> THEN Null
    ELSE IF IsNaN(parseFloat(value)) THEN Null ELSE parseFloat(value)

\* setYearData, the error of the field cleared, then the effect on
\* [yearData] that recalculates the metrics.
SetField(fieldName, parsedValue) ==
    /\ edits < MaxEdits
    /\ edits' = edits + 1
    /\ LET call == calculateESGMetricsCall([yearData EXCEPT ![fieldName] = parsedValue])
       IN  /\ yearData' = call.data
           /\ calculatedData' = call.calculatedData
    /\ fieldErrors' = [f \in DOMAIN fieldErrors \ {fieldName} |-> fieldErrors[f]]
    /\ UNCHANGED <<lastSubmit, pageVars, store, lastApi, serverVars, yearVars>>

\* handleInputChange(fieldName, e.target.value) of a numeric input
handleInputChange ==
    \E fieldName \in NumericRawFields :
        \E value \in InputsFor(fieldName) :
            SetField(fieldName, ParsedInput(value))

\* handleInputChange('hasDataPrivacyPolicy', true | false | null)
handlePolicyChange ==
    \E value \in {True, False, Null} : SetField("hasDataPrivacyPolicy", value)

\* QuestionnairePage.handleSubmit up to its first await: the token is read,
\* the request for the active year is sent.
PageSubmitStart(data) ==
    /\ submitSuccess' = FALSE
    /\ IF authToken = NoToken
       THEN /\ submitError' = "An unexpected error occurred. Please check your connection and try again."
            /\ isSubmitting' = FALSE
            /\ UNCHANGED <<pagePc, request>>
       ELSE /\ submitError' = ""
            /\ isSubmitting' = TRUE
            /\ pagePc' = "awaitPost"
            /\ request' = [method |-> "POST", header |-> Bearer(authToken),
                           body |-> ResponsesBody(
                               <<[key |-> NumberToString(activeYear),
                                  data |-> JsonData(data)]>>)]
    /\ UNCHANGED <<activeYear, initialFetchedData, authToken, response>>

\* Variant: onSubmit is called whatever the errors array holds.
FormHandleSubmitAlways ==
    LET errs == ValidationErrors(yearData)
        arg == Spread(yearData, calculateESGMetrics(yearData))
    IN  /\ ~isSubmitting
        /\ lastSubmit' = [ran |-> TRUE, data |-> yearData, errors |-> errs,
                          called |-> TRUE, arg |-> arg]
        /\ fieldErrors' = NewFieldErrors(errs)
        /\ PageSubmitStart(arg)
        /\ UNCHANGED <<yearData, calculatedData, edits, store, lastApi, serverVars, yearVars>>

\* ESGForm.handleSubmit: the save button is disabled while isSubmitting.
FormHandleSubmit ==
    LET errs == ValidationErrors(yearData)
        arg == Spread(yearData, calculateESGMetrics(yearData))
    IN  /\ ~isSubmitting
        /\ IF Len(errs) > 0
           THEN /\ lastSubmit' = [ran |-> TRUE, data |-> yearData, errors |-> errs,
                                  called |-> FALSE, arg |-> EmptyData]
                /\ fieldErrors' = NewFieldErrors(errs)
                /\ submitError' = ""
                /\ UNCHANGED <<activeYear, isSubmitting, submitSuccess,
                               initialFetchedData, authToken, pagePc, request,
                               response>>
           ELSE /\ lastSubmit' = [ran |-> TRUE, data |-> yearData, errors |-> errs,
                                  called |-> TRUE, arg |-> arg]
                /\ fieldErrors' = <<>>
                /\ PageSubmitStart(arg)
        /\ UNCHANGED <<yearData, calculatedData, edits, store, lastApi, serverVars, yearVars>>

----------------------------------------------------------------------------
(* The server answering the page, and the page taking the answer *)

\* POST /api/responses handles the page's request.
ServePost ==
    /\ request.method = "POST"
    /\ LET reply == PostHandler(store, request.header, request.body)
       IN  /\ store' = reply.rows
           /\ response' = HttpResponse(reply)
    /\ request' = NoRequest
    /\ UNCHANGED <<formVars, activeYear, isSubmitting, submitError, submitSuccess,
                   initialFetchedData, authToken, pagePc, lastApi, serverVars, yearVars>>

\* GET /api/responses handles the page's request.
ServeGet ==
    /\ request.method = "GET"
    /\ response' = HttpResponse(GetHandler(store, request.header))
    /\ request' = NoRequest
    /\ UNCHANGED <<formVars, activeYear, isSubmitting, submitError, submitSuccess,
                   initialFetchedData, authToken, pagePc, store, lastApi, serverVars, yearVars>>

\* The request never reaches the server: fetch() rejects.
RequestLost ==
    /\ request # NoRequest
    /\ request' = NoRequest
    /\ response' = NetworkError
    /\ UNCHANGED <<formVars, activeYear, isSubmitting, submitError, submitSuccess,
                   initialFetchedData, authToken, pagePc, store, lastApi, serverVars, yearVars>>

\* QuestionnairePage.handleSubmit after await fetch(POST)
PageAfterPost ==
    /\ pagePc = "awaitPost"
    /\ response # NoResponse
    /\ response' = NoResponse
    /\ IF response.kind = "failed"
       THEN /\ submitError' = "An unexpected error occurred. Please check your connection and try again."
            /\ isSubmitting' = FALSE
            /\ pagePc' = "idle"
            /\ UNCHANGED <<submitSuccess, request>>
       ELSE IF response.status = 200
       THEN /\ submitSuccess' = TRUE
            /\ pagePc' = "awaitRefresh"
            /\ request' = [method |-> "GET", header |-> Bearer(authToken),
                           body |-> NoBody]
            /\ UNCHANGED <<submitError, isSubmitting>>
       ELSE /\ submitError' = IF response.error # "" THEN response.error
                              ELSE "Failed to save responses. Please try again."
            /\ isSubmitting' = FALSE
            /\ pagePc' = "idle"
            /\ UNCHANGED <<submitSuccess, request>>
    /\ UNCHANGED <<formVars, activeYear, initialFetchedData, authToken, store, lastApi, serverVars, yearVars>>

\* Variant: setIsSubmitting(false) is reached only when the refresh answers
\* 200 (no finally block).
PageAfterRefreshNoFinally ==
    /\ pagePc = "awaitRefresh"
    /\ response # NoResponse
    /\ response' = NoResponse
    /\ initialFetchedData' =
          IF response.kind = "http" /\ response.status = 200
          THEN response.responses
          ELSE initialFetchedData
    /\ isSubmitting' = ~(response.kind = "http" /\ response.status = 200)
    /\ pagePc' = "idle"
    /\ UNCHANGED <<formVars, activeYear, submitError, submitSuccess, authToken,
                   request, store, lastApi, serverVars, yearVars>>

\* QuestionnairePage.handleSubmit after await fetch(GET), the refresh
PageAfterRefresh ==
    /\ pagePc = "awaitRefresh"
    /\ response # NoResponse
    /\ response' = NoResponse
    /\ initialFetchedData' =
          IF response.kind = "http" /\ response.status = 200
          THEN response.responses
          ELSE initialFetchedData
    /\ isSubmitting' = FALSE
    /\ pagePc' = "idle"
    /\ UNCHANGED <<formVars, activeYear, submitError, submitSuccess, authToken,
                   request, store, lastApi, serverVars, yearVars>>

----------------------------------------------------------------------------
(* The questionnaire: one form open on one year *)

Init ==
    /\ activeYear \in FormYears
    /\ yearData \in InitialRecords
    /\ calculatedData = calculateESGMetrics(yearData)
    /\ fieldErrors = <<>>
    /\ lastSubmit = NoSubmit
    /\ isSubmitting = FALSE
    /\ submitError = ""
    /\ submitSuccess = FALSE
    /\ initialFetchedData = [y \in {activeYear} |-> yearData]
    /\ authToken \in {Token(FormUser, TRUE), NoToken}
    /\ pagePc = "idle"
    /\ request = NoRequest
    /\ response = NoResponse
    /\ store = IF yearData = EmptyData THEN {}
               ELSE {[userId |-> FormUser, year |-> activeYear, data |-> yearData]}
    /\ lastApi = NoApi
    /\ edits = 0
    /\ users = SeedUsers
    /\ authCalls = <<>>
    /\ now = 0
    /\ issued = {}
    /\ lastVerify = NoVerify
    /\ saveCalls = <<>>
    /\ YearsUnmounted

Next ==
    \/ handleInputChange
    \/ handlePolicyChange
    \/ FormHandleSubmit
    \/ ServePost
    \/ ServeGet
    \/ RequestLost
    \/ PageAfterPost
    \/ PageAfterRefresh

Spec == Init /\ [][Next]_vars

\* The request in flight is taken up: by ServePost, ServeGet or RequestLost,
\* the only steps that do so.
FetchSettles == request # NoRequest /\ request' = NoRequest

\* Every fetch() of the page settles: the server answers the request or the
\* request fails, and the handler waiting for it then runs on.
SpecLive ==
    /\ Spec
    /\ WF_request(FetchSettles)
    /\ WF_vars(PageAfterPost)
    /\ WF_vars(PageAfterRefresh)

----------------------------------------------------------------------------
(* Direct clients of the API: any header, any payload *)

ApiHeaders ==
    { NoHeader,
      [scheme |-> "Basic", token |-> Token("alice", TRUE)],
      Bearer(Token("alice", TRUE)),
      Bearer(Token("bob", TRUE)),
      Bearer(Token("alice", FALSE)) }

\* The raw fields of the end-to-end example, derived fields absent.
RawOnly == [f \in ESGFields |-> IF f \in DerivedFields THEN Undefined ELSE SavedRaw[f]]

\* Other raw fields (a revenue of 50), derived fields absent.
RawOnlyRevised == [RawOnly EXCEPT !.totalRevenue = Int2Num(50)]

\* Derived fields that disagree with the raw fields beside them.
Disagreeing == [SavedRecord EXCEPT !.carbonIntensity = Int2Num(40)]

AllNull == [f \in ESGFields |-> Null]

\* A head count that is no integer: the Int column refuses it.
BadType == [RawOnly EXCEPT !.totalEmployees = Rat(1, 2)]

ApiData == {RawOnly, RawOnlyRevised, Disagreeing, AllNull, EmptyData, BadType}

Key2023 == <<"2", "0", "2", "3">>

Key2024 == <<"2", "0", "2", "4">>

KeyNoYear == <<"a", "b", "c">>

\* A year followed by a letter.
Key2023a == <<"2", "0", "2", "3", "a">>

ApiKeys == {Key2023, Key2024, KeyNoYear, Key2023a}

Entry(key, data) == [key |-> key, data |-> data]

ApiBodies ==
    {MissingResponsesBody, ScalarResponsesBody}
    \cup {ResponsesBody(<<Entry(Key2023, d)>>) :
            d \in {JsonNull, JsonNumber, JsonString(KeyNoYear)}}
    \cup {ResponsesBody(<<Entry(Key2023, d)>>) : d \in ApiData}
    \cup {ResponsesBody(<<Entry(k, Disagreeing)>>) : k \in {Key2024, KeyNoYear}}
    \cup {ResponsesBody(<<Entry(Key2023, d), Entry(Key2024, RawOnly)>>) :
            d \in {AllNull, BadType}}

\* Headers that carry no token verifyToken accepts.
RefusedHeaders == {h \in ApiHeaders : verifyToken(getTokenFromHeader(h)) = NoUser}

\* The POST requests of the clients: alice sends every body, bob saves one
\* year, and a client without a valid token sends a body that would be
\* saved and one that would be refused.
ApiPostRequests ==
    {<<Bearer(Token("alice", TRUE)), body>> : body \in ApiBodies}
    \cup {<<Bearer(Token("bob", TRUE)), ResponsesBody(<<Entry(Key2023, RawOnlyRevised)>>)>>}
    \cup {<<h, body>> : h \in RefusedHeaders,
                        body \in {ResponsesBody(<<Entry(Key2023, RawOnly)>>),
                                  MissingResponsesBody}}

\* The DELETE requests of the clients.
ApiDeleteRequests ==
    {<<Bearer(Token("alice", TRUE)), k>> : k \in ApiKeys}
    \cup {<<Bearer(Token("bob", TRUE)), Key2023>>}
    \cup {<<h, k>> : h \in RefusedHeaders, k \in {Key2023, KeyNoYear}}

ApiPost ==
    \E req \in ApiPostRequests :
        LET header == req[1]
            body == req[2]
            reply == PostHandler(store, header, body)
        IN  /\ store' = reply.rows
            /\ lastApi' = [method |-> "POST", header |-> header, yearParam |-> <<>>,
                            body |-> body, status |-> reply.status,
                            error |-> reply.error, responses |-> <<>>]
            /\ UNCHANGED <<formVars, pageVars, serverVars, yearVars>>

ApiGet ==
    \E header \in ApiHeaders :
        LET reply == GetHandler(store, header)
        IN  /\ lastApi' = [method |-> "GET", header |-> header, yearParam |-> <<>>,
                            body |-> NoBody, status |-> reply.status,
                            error |-> reply.error, responses |-> reply.responses]
            /\ UNCHANGED <<formVars, pageVars, store, serverVars, yearVars>>

ApiDelete ==
    \E req \in ApiDeleteRequests :
        LET header == req[1]
            yearParam == req[2]
            reply == DeleteHandler(store, header, yearParam)
        IN  /\ store' = reply.rows
            /\ lastApi' = [method |-> "DELETE", header |-> header,
                            yearParam |-> yearParam, body |-> NoBody,
                            status |-> reply.status, error |-> reply.error,
                            responses |-> <<>>]
            /\ UNCHANGED <<formVars, pageVars, serverVars, yearVars>>

InitApi ==
    /\ activeYear \in FormYears
    /\ yearData = EmptyData
    /\ calculatedData = calculateESGMetrics(yearData)
    /\ fieldErrors = <<>>
    /\ lastSubmit = NoSubmit
    /\ isSubmitting = FALSE
    /\ submitError = ""
    /\ submitSuccess = FALSE
    /\ initialFetchedData = <<>>
    /\ authToken = NoToken
    /\ pagePc = "idle"
    /\ request = NoRequest
    /\ response = NoResponse
    /\ store = {}
    /\ lastApi = NoApi
    /\ edits = 0
    /\ users = SeedUsers
    /\ authCalls = <<>>
    /\ now = 0
    /\ issued = {}
    /\ lastVerify = NoVerify
    /\ saveCalls = <<>>
    /\ YearsUnmounted

NextApi == ApiPost \/ ApiGet \/ ApiDelete

SpecApi == InitApi /\ [][NextApi]_vars

----------------------------------------------------------------------------
(* Signup and login (src/app/api/auth).  Requests run concurrently: each   *)
(* handler is cut at the awaits where it reads or writes the User table.   *)

\* signup and login requests in one behaviour
MaxAuthCalls == 3

\* A JSON body: the fields it has, "" for an empty string.
AuthBody(name, email, password, absent) ==
    [name |-> name, email |-> email, password |-> password, absent |-> absent]

\* !body.<field>
Falsy(body, field) == field \in body.absent \/ body[field] = ""

SignupBodies ==
    { AuthBody("A B", "a@b.com", "abcdef", {}),
      AuthBody("C D", "c@d.com", "ghijkl", {}),
      AuthBody("", "a@b.com", "abcdef", {}),
      AuthBody("A B", "", "abcdef", {"email"}),
      AuthBody("A B", "c@d.com", "", {}) }

LoginBodies ==
    { AuthBody("", "a@b.com", "abcdef", {"name"}),
      AuthBody("", "a@b.com", "ghijkl", {"name"}),
      AuthBody("", "c@d.com", "abcdef", {"name"}),
      AuthBody("", "a@b.com", "", {"name", "password"}) }

\* prisma.user.findUnique({ where: { email } })
FindUnique(rows, email) == {u \in rows : u.email = email}

Answered(call, status, error) ==
    [call EXCEPT !.pc = "done", !.status = status, !.error = error]

NewAuthCall(op, body) ==
    [NoAuthCall EXCEPT !.op = op, !.name = body.name, !.email = body.email,
                       !.password = body.password]

\* signup POST up to its first store operation: the body is read and checked.
SignupReceive ==
    \E body \in SignupBodies :
        /\ Len(authCalls) < MaxAuthCalls
        /\ authCalls' = Append(authCalls,
              IF Falsy(body, "name") \/ Falsy(body, "email") \/ Falsy(body, "password")
              THEN Answered(NewAuthCall("signup", body), 400,
                            "Name, email, and password are required.")
              ELSE [NewAuthCall("signup", body) EXCEPT !.pc = "findUnique"])
        /\ UNCHANGED <<formVars, pageVars, store, lastApi, users, now, issued, lastVerify, saveCalls, yearVars>>

\* signup POST: await prisma.user.findUnique, then the 409 or on to the hash.
SignupFindUnique ==
    \E i \in DOMAIN authCalls :
        /\ authCalls[i].op = "signup"
        /\ authCalls[i].pc = "findUnique"
        /\ authCalls' = [authCalls EXCEPT ![i] =
              IF FindUnique(users, authCalls[i].email) # {}
              THEN Answered([authCalls[i] EXCEPT !.existed = TRUE], 409,
                            "User with this email already exists.")
              ELSE [authCalls[i] EXCEPT !.pc = "create"]]
        /\ UNCHANGED <<formVars, pageVars, store, lastApi, users, now, issued, lastVerify, saveCalls, yearVars>>

\* Variant: the User table has no unique index on email.
SignupCreateNoIndex ==
    \E i \in DOMAIN authCalls :
        /\ authCalls[i].op = "signup"
        /\ authCalls[i].pc = "create"
        /\ LET id == UserIds[(Cardinality(users) % Len(UserIds)) + 1]
           IN  /\ users' = users \cup
                     {UserRow(id, authCalls[i].name, authCalls[i].email,
                              hashPassword(authCalls[i].password))}
               /\ authCalls' = [authCalls EXCEPT ![i] =
                     Answered([@ EXCEPT !.userId = id, !.userName = authCalls[i].name],
                              201, "")]
        /\ UNCHANGED <<formVars, pageVars, store, lastApi, now, issued, lastVerify, saveCalls, yearVars>>

\* signup POST: await prisma.user.create.  The unique index on email makes
\* the insert throw when the email has been taken since the lookup; the
\* catch answers 500.
SignupCreate ==
    \E i \in DOMAIN authCalls :
        /\ authCalls[i].op = "signup"
        /\ authCalls[i].pc = "create"
        /\ IF FindUnique(users, authCalls[i].email) # {}
           THEN /\ authCalls' = [authCalls EXCEPT ![i] =
                       Answered(@, 500, "Internal server error during signup.")]
                /\ UNCHANGED users
           ELSE LET id == UserIds[Cardinality(users) + 1]
                IN  /\ users' = users \cup
                          {UserRow(id, authCalls[i].name, authCalls[i].email,
                                   hashPassword(authCalls[i].password))}
                    /\ authCalls' = [authCalls EXCEPT ![i] =
                          Answered([@ EXCEPT !.userId = id, !.userName = authCalls[i].name],
                                   201, "")]
        /\ UNCHANGED <<formVars, pageVars, store, lastApi, now, issued, lastVerify, saveCalls, yearVars>>

\* login POST up to its store operation: the body is read and checked.
LoginReceive ==
    \E body \in LoginBodies :
        /\ Len(authCalls) < MaxAuthCalls
        /\ authCalls' = Append(authCalls,
              IF Falsy(body, "email") \/ Falsy(body, "password")
              THEN Answered(NewAuthCall("login", body), 400,
                            "Email and password are required.")
              ELSE [NewAuthCall("login", body) EXCEPT !.pc = "findUnique"])
        /\ UNCHANGED <<formVars, pageVars, store, lastApi, users, now, issued, lastVerify, saveCalls, yearVars>>

\* Variant: an unknown email is answered 404.
LoginFindUniqueRevealing ==
    \E i \in DOMAIN authCalls :
        /\ authCalls[i].op = "login"
        /\ authCalls[i].pc = "findUnique"
        /\ LET found == FindUnique(users, authCalls[i].email)
               user == CHOOSE u \in found : TRUE
           IN  IF found = {}
               THEN /\ authCalls' = [authCalls EXCEPT ![i] =
                          Answered(@, 404, "User not found.")]
                    /\ UNCHANGED issued
               ELSE IF ~verifyPassword(authCalls[i].password, user.password)
               THEN /\ authCalls' = [authCalls EXCEPT ![i] =
                          Answered([@ EXCEPT !.existed = TRUE], 401, "Invalid credentials.")]
                    /\ UNCHANGED issued
               ELSE /\ authCalls' = [authCalls EXCEPT ![i] =
                          Answered([@ EXCEPT !.existed = TRUE, !.userId = user.id,
                                             !.userName = user.name,
                                             !.token = generateToken(user.id, now)],
                                   200, "")]
                    /\ issued' = issued \cup
                          {[token |-> generateToken(user.id, now), at |-> now]}
        /\ UNCHANGED <<formVars, pageVars, store, lastApi, users, now, lastVerify, saveCalls, yearVars>>

\* login POST: await prisma.user.findUnique, await verifyPassword, then
\* generateToken(user.id).
LoginFindUnique ==
    \E i \in DOMAIN authCalls :
        /\ authCalls[i].op = "login"
        /\ authCalls[i].pc = "findUnique"
        /\ LET found == FindUnique(users, authCalls[i].email)
               user == CHOOSE u \in found : TRUE
           IN  IF found = {}
               THEN /\ authCalls' = [authCalls EXCEPT ![i] =
                          Answered(@, 401, "Invalid credentials.")]
                    /\ UNCHANGED issued
               ELSE IF ~verifyPassword(authCalls[i].password, user.password)
               THEN /\ authCalls' = [authCalls EXCEPT ![i] =
                          Answered([@ EXCEPT !.existed = TRUE], 401, "Invalid credentials.")]
                    /\ UNCHANGED issued
               ELSE /\ authCalls' = [authCalls EXCEPT ![i] =
                          Answered([@ EXCEPT !.existed = TRUE, !.userId = user.id,
                                             !.userName = user.name,
                                             !.token = generateToken(user.id, now)],
                                   200, "")]
                    /\ issued' = issued \cup
                          {[token |-> generateToken(user.id, now), at |-> now]}
        /\ UNCHANGED <<formVars, pageVars, store, lastApi, users, now, lastVerify, saveCalls, yearVars>>

InitAuth ==
    /\ activeYear \in FormYears
    /\ yearData = EmptyData
    /\ calculatedData = calculateESGMetrics(yearData)
    /\ fieldErrors = <<>>
    /\ lastSubmit = NoSubmit
    /\ isSubmitting = FALSE
    /\ submitError = ""
    /\ submitSuccess = FALSE
    /\ initialFetchedData = <<>>
    /\ authToken = NoToken
    /\ pagePc = "idle"
    /\ request = NoRequest
    /\ response = NoResponse
    /\ store = {}
    /\ lastApi = NoApi
    /\ edits = 0
    /\ users \in {{}, {UserRow("alice", "A B", "a@b.com", hashPassword("abcdef"))}}
    /\ authCalls = <<>>
    /\ now = 0
    /\ issued = {}
    /\ lastVerify = NoVerify
    /\ saveCalls = <<>>
    /\ YearsUnmounted

NextAuth ==
    \/ SignupReceive
    \/ SignupFindUnique
    \/ SignupCreate
    \/ LoginReceive
    \/ LoginFindUnique

SpecAuth == InitAuth /\ [][NextAuth]_vars

----------------------------------------------------------------------------
(* QuestionnairePage: the list of financial years                          *)
(* (src/app/questionnaire/page.tsx)                                        *)

\* handleRemoveYear calls in one behaviour
MaxRemoveCalls == 1

\* handleConfirmAddYear calls in one behaviour
MaxAddCalls == 1

\* Number(key) for a key of the fetched object.
ToNumber(s) ==
    IF s = <<>> THEN Int2Num(0)
    ELSE IF \A i \in DOMAIN s : IsDigit(s[i])
    THEN Int2Num(DigitsValue(s, 1, Len(s) + 1, 0))
    ELSE NaN

\* Object.keys of an object whose keys are integers: ascending, as strings.
RECURSIVE ObjectKeys(_)
ObjectKeys(obj) ==
    IF DOMAIN obj = {} THEN <<>>
    ELSE LET least == CHOOSE y \in DOMAIN obj : \A z \in DOMAIN obj : y <= z
             rest == [z \in DOMAIN obj \ {least} |-> obj[z]]
         IN  <<NumberToString(least)>> \o ObjectKeys(rest)

\* The place of y in a sequence sorted by (a, b) => b - a.
RECURSIVE InsertDesc(_, _)
InsertDesc(sorted, y) ==
    IF sorted = <<>> THEN <<y>>
    ELSE IF Head(sorted) >= y THEN <<Head(sorted)>> \o InsertDesc(Tail(sorted), y)
    ELSE <<y>> \o sorted

\* array.sort((a, b) => b - a)
RECURSIVE SortDesc(_)
SortDesc(array) ==
    IF array = <<>> THEN <<>> ELSE InsertDesc(SortDesc(Tail(array)), Head(array))

\* Object.keys(data.responses || {}).map(Number).filter(y => !isNaN(y)).sort(...)
FetchedYears(responses) ==
    LET keys == ObjectKeys(responses)
        numbers == [i \in DOMAIN keys |-> ToNumber(keys[i])]
        kept == SelectSeq(numbers, LAMBDA v : ~IsNaN(v))
    IN  SortDesc([i \in DOMAIN kept |-> kept[i].n])

Includes(array, y) == \E i \in DOMAIN array : array[i] = y

\* What the user types into the year input of the dialog.
YearInputs ==
    { <<"1", "8", "9", "9">>,
      <<"1", "9", "0", "0">>,
      <<"2", "0", "2", "4">>,
      <<"2", "0", "2", "5">>,
      <<"2", "0", "a">> }

\* The token the browser holds: a valid one, an expired one, none.
BrowserTokens == {Token(FormUser, TRUE), Token(FormUser, FALSE), NoToken}

\* The records one year may hold in the table when the page is opened.
StoredYears == {2023, 2024}

NoRemoveCall ==
    [year |-> NoYear, years |-> <<>>, activeYear |-> NoYear, header |-> NoHeader,
     pc |-> "none", response |-> NoResponse]

\* Calls of handleConfirmAddYear made so far.
AddCalls == Len(SelectSeq(years, LAMBDA y : y \notin StoredYears))

\* checkAuthAndFetchData up to its await: without a token the router goes
\* to /login and the function returns.
LoadStart ==
    /\ isLoading
    /\ location = "/questionnaire"
    /\ pagePc = "idle"
    /\ IF authToken = NoToken
       THEN /\ location' = "/login"
            /\ UNCHANGED <<pagePc, request>>
       ELSE /\ pagePc' = "awaitLoad"
            /\ request' = [method |-> "GET", header |-> Bearer(authToken),
                           body |-> NoBody]
            /\ UNCHANGED location
    /\ UNCHANGED <<formVars, activeYear, isSubmitting, submitError, submitSuccess,
                   initialFetchedData, authToken, response, store, lastApi,
                   serverVars, years, isAddingYear, newYearInput, newYearError,
                   isLoading, removeCalls>>

\* checkAuthAndFetchData after await fetch(GET)
LoadDone ==
    /\ pagePc = "awaitLoad"
    /\ response # NoResponse
    /\ response' = NoResponse
    /\ pagePc' = "idle"
    /\ isLoading' = FALSE
    /\ IF response.kind = "http" /\ response.status = 200
       THEN /\ initialFetchedData' = response.responses
            /\ years' = FetchedYears(response.responses)
            /\ activeYear' = IF Len(years') > 0 THEN NoYear ELSE activeYear
       ELSE /\ initialFetchedData' = <<>>
            /\ UNCHANGED <<years, activeYear>>
    /\ UNCHANGED <<formVars, isSubmitting, submitError, submitSuccess, authToken,
                   request, store, lastApi, serverVars, isAddingYear, newYearInput,
                   newYearError, location, removeCalls>>

\* The page is rendered with its buttons.
Shown == ~isLoading /\ location = "/questionnaire"

handleStartAddYear ==
    /\ Shown
    /\ ~isAddingYear
    /\ isAddingYear' = TRUE
    /\ newYearInput' = <<>>
    /\ newYearError' = ""
    /\ UNCHANGED <<formVars, pageVars, store, lastApi, serverVars, years, isLoading,
                   location, removeCalls>>

handleCancelAddYear ==
    /\ Shown
    /\ isAddingYear
    /\ isAddingYear' = FALSE
    /\ newYearInput' = <<>>
    /\ newYearError' = ""
    /\ UNCHANGED <<formVars, pageVars, store, lastApi, serverVars, years, isLoading,
                   location, removeCalls>>

\* onChange of the year input: the value is kept if /^\d*$/ matches it.
YearInputChange ==
    \E value \in YearInputs :
        /\ Shown
        /\ isAddingYear
        /\ newYearInput' = IF \A i \in DOMAIN value : IsDigit(value[i])
                           THEN value ELSE newYearInput
        /\ UNCHANGED <<formVars, pageVars, store, lastApi, serverVars, years,
                       isAddingYear, newYearError, isLoading, location, removeCalls>>

\* Variant: the new year is appended, the list is not sorted again.
handleConfirmAddYearUnsorted ==
    LET year == parseInt(newYearInput)
    IN  /\ Shown
        /\ isAddingYear
        /\ (AddCalls < MaxAddCalls
              \/ IsNaN(year) \/ year.n < 1900 \/ year.n > 2024
              \/ Includes(years, year.n))
        /\ IF IsNaN(year) \/ year.n < 1900 \/ year.n > 2024
           THEN /\ newYearError' = "Please enter a year between 1900 - 2024."
                /\ UNCHANGED <<years, activeYear, isAddingYear, newYearInput,
                               initialFetchedData>>
           ELSE IF Includes(years, year.n)
           THEN /\ newYearError' = "Financial Year is already added."
                /\ UNCHANGED <<years, activeYear, isAddingYear, newYearInput,
                               initialFetchedData>>
           ELSE /\ years' = Append(years, year.n)
                /\ activeYear' = year.n
                /\ isAddingYear' = FALSE
                /\ newYearInput' = <<>>
                /\ newYearError' = ""
                /\ initialFetchedData' =
                      [y \in DOMAIN initialFetchedData \cup {year.n} |->
                          IF y = year.n THEN EmptyData ELSE initialFetchedData[y]]
        /\ UNCHANGED <<formVars, isSubmitting, submitError, submitSuccess, authToken,
                       pagePc, request, response, store, lastApi, serverVars,
                       isLoading, location, removeCalls>>

handleConfirmAddYear ==
    LET year == parseInt(newYearInput)
    IN  /\ Shown
        /\ isAddingYear
        /\ (AddCalls < MaxAddCalls
              \/ IsNaN(year) \/ year.n < 1900 \/ year.n > 2024
              \/ Includes(years, year.n))
        /\ IF IsNaN(year) \/ year.n < 1900 \/ year.n > 2024
           THEN /\ newYearError' = "Please enter a year between 1900 - 2024."
                /\ UNCHANGED <<years, activeYear, isAddingYear, newYearInput,
                               initialFetchedData>>
           ELSE IF Includes(years, year.n)
           THEN /\ newYearError' = "Financial Year is already added."
                /\ UNCHANGED <<years, activeYear, isAddingYear, newYearInput,
                               initialFetchedData>>
           ELSE /\ years' = SortDesc(Append(years, year.n))
                /\ activeYear' = year.n
                /\ isAddingYear' = FALSE
                /\ newYearInput' = <<>>
                /\ newYearError' = ""
                /\ initialFetchedData' =
                      [y \in DOMAIN initialFetchedData \cup {year.n} |->
                          IF y = year.n THEN EmptyData ELSE initialFetchedData[y]]
        /\ UNCHANGED <<formVars, isSubmitting, submitError, submitSuccess, authToken,
                       pagePc, request, response, store, lastApi, serverVars,
                       isLoading, location, removeCalls>>

\* handleRemoveYear(yearToRemove) up to its await: the call keeps the years
\* and the activeYear of the render whose button was clicked.  The open
\* dialog covers the buttons of the list.
RemoveStart ==
    \E i \in DOMAIN years :
        /\ Shown
        /\ ~isAddingYear
        /\ Len(removeCalls) < MaxRemoveCalls
        /\ IF authToken = NoToken
           THEN /\ submitError' = "Authentication required to remove data."
                /\ removeCalls' = Append(removeCalls,
                      [NoRemoveCall EXCEPT !.year = years[i], !.years = years,
                                           !.activeYear = activeYear,
                                           !.pc = "returned"])
           ELSE /\ removeCalls' = Append(removeCalls,
                      [NoRemoveCall EXCEPT !.year = years[i], !.years = years,
                                           !.activeYear = activeYear,
                                           !.header = Bearer(authToken),
                                           !.pc = "fetch"])
                /\ UNCHANGED submitError
        /\ UNCHANGED <<formVars, activeYear, isSubmitting, submitSuccess,
                       initialFetchedData, authToken, pagePc, request, response,
                       store, lastApi, serverVars, years, isAddingYear, newYearInput,
                       newYearError, isLoading, location>>

\* handleLogout of the Layout runs in another tab of the browser: the token
\* leaves the localStorage both tabs share, this page stays as it is.
handleLogoutElsewhere ==
    /\ Shown
    /\ authToken # NoToken
    /\ authToken' = NoToken
    /\ UNCHANGED <<formVars, activeYear, isSubmitting, submitError, submitSuccess,
                   initialFetchedData, pagePc, request, response, store, lastApi,
                   serverVars, yearVars>>

\* DELETE /api/responses/{year} handles the request of a call.
ServeDelete ==
    \E i \in DOMAIN removeCalls :
        LET call == removeCalls[i]
            reply == DeleteHandler(store, call.header, NumberToString(call.year))
        IN  /\ call.pc = "fetch"
            /\ store' = reply.rows
            /\ removeCalls' = [removeCalls EXCEPT ![i].pc = "answered",
                                                  ![i].response = HttpResponse(reply)]
            /\ UNCHANGED <<formVars, pageVars, lastApi, serverVars, years, isAddingYear,
                           newYearInput, newYearError, isLoading, location>>

\* deleteMany rejects (the database cannot be reached): the catch answers 500.
\* Or the request never reaches the server: fetch() rejects.
DeleteFails ==
    \E i \in DOMAIN removeCalls :
        \E answer \in {NetworkError,
                       HttpResponse(Reply(500, "Internal server error while deleting ESG response.",
                                          <<>>, store))} :
            /\ removeCalls[i].pc = "fetch"
            /\ removeCalls' = [removeCalls EXCEPT ![i].pc = "answered",
                                                  ![i].response = answer]
            /\ UNCHANGED <<formVars, pageVars, store, lastApi, serverVars, years,
                           isAddingYear, newYearInput, newYearError, isLoading,
                           location>>

\* Variant: the year is dropped from the list only when the server removed it.
RemoveFinishOnSuccess ==
    \E i \in DOMAIN removeCalls :
        LET call == removeCalls[i]
            ok == call.response.kind = "http" /\ call.response.status = 200
        IN  /\ call.pc = "answered"
            /\ removeCalls' = [removeCalls EXCEPT ![i].pc = "done",
                                                  ![i].years = <<>>,
                                                  ![i].activeYear = NoYear,
                                                  ![i].header = NoHeader]
            /\ years' = IF ok THEN SelectSeq(call.years, LAMBDA y : y # call.year)
                        ELSE years
            /\ activeYear' = IF ok /\ call.activeYear = call.year THEN NoYear
                             ELSE activeYear
            /\ initialFetchedData' =
                  IF ok THEN [y \in DOMAIN initialFetchedData \ {call.year} |->
                                 initialFetchedData[y]]
                  ELSE initialFetchedData
            /\ UNCHANGED <<formVars, isSubmitting, submitError, submitSuccess,
                           authToken, pagePc, request, response, store, lastApi,
                           serverVars, isAddingYear, newYearInput, newYearError,
                           isLoading, location>>

\* handleRemoveYear after await fetch(DELETE), whatever the answer was
RemoveFinish ==
    \E i \in DOMAIN removeCalls :
        LET call == removeCalls[i]
        IN  /\ call.pc = "answered"
            /\ removeCalls' = [removeCalls EXCEPT ![i].pc = "done",
                                                  ![i].years = <<>>,
                                                  ![i].activeYear = NoYear,
                                                  ![i].header = NoHeader]
            /\ years' = SelectSeq(call.years, LAMBDA y : y # call.year)
            /\ activeYear' = IF call.activeYear = call.year THEN NoYear
                             ELSE activeYear
            /\ initialFetchedData' =
                  [y \in DOMAIN initialFetchedData \ {call.year} |->
                      initialFetchedData[y]]
            /\ UNCHANGED <<formVars, isSubmitting, submitError, submitSuccess,
                           authToken, pagePc, request, response, store, lastApi,
                           serverVars, isAddingYear, newYearInput, newYearError,
                           isLoading, location>>

InitYears ==
    /\ activeYear = NoYear
    /\ yearData = EmptyData
    /\ calculatedData = calculateESGMetrics(yearData)
    /\ fieldErrors = <<>>
    /\ lastSubmit = NoSubmit
    /\ isSubmitting = FALSE
    /\ submitError = ""
    /\ submitSuccess = FALSE
    /\ initialFetchedData = <<>>
    /\ authToken \in BrowserTokens
    /\ pagePc = "idle"
    /\ request = NoRequest
    /\ response = NoResponse
    /\ store \in {{[userId |-> FormUser, year |-> y, data |-> SavedRecord] : y \in Y} :
                    Y \in {{}, {2023}, StoredYears}}
    /\ lastApi = NoApi
    /\ edits = 0
    /\ users = SeedUsers
    /\ authCalls = <<>>
    /\ now = 0
    /\ issued = {}
    /\ lastVerify = NoVerify
    /\ saveCalls = <<>>
    /\ YearsUnmounted

NextYears ==
    \/ LoadStart
    \/ ServeGet
    \/ RequestLost
    \/ LoadDone
    \/ handleStartAddYear
    \/ handleCancelAddYear
    \/ YearInputChange
    \/ handleConfirmAddYear
    \/ RemoveStart
    \/ handleLogoutElsewhere
    \/ ServeDelete
    \/ DeleteFails
    \/ RemoveFinish

SpecYears == InitYears /\ [][NextYears]_vars

----------------------------------------------------------------------------
(* The try / catch / finally of the five route handlers: what a handler    *)
(* answers when request.json() rejects or the database cannot be reached.  *)

\* What may go wrong outside the handler's own checks.
Faults == {"none", "json", "store"}

\* The try block ended with a return.
Returned(reply) ==
    [status |-> reply.status, error |-> reply.error, responses |-> reply.responses,
     rows |-> reply.rows, thrown |-> "none", propagated |-> FALSE]

\* The try block ended with an exception, on its way to the caller.
Thrown(exception, rows) ==
    [status |-> 0, error |-> exception, responses |-> <<>>, rows |-> rows,
     thrown |-> exception, propagated |-> TRUE]

\* Variant: the catch block answers with the message of the exception.
CatchLeaking(attempt, message) ==
    IF attempt.thrown = "none" THEN attempt
    ELSE [attempt EXCEPT !.status = 500, !.error = attempt.thrown,
                         !.propagated = FALSE]

\* catch (error) { console.error(...); return NextResponse.json({ error:
\* <message> }, { status: 500 }) }, then finally { await prisma.$disconnect() }
Catch(attempt, message) ==
    IF attempt.thrown = "none" THEN attempt
    ELSE [attempt EXCEPT !.status = 500, !.error = message, !.propagated = FALSE]

\* The try block of POST /api/responses.
PostTry(rows, header, body, fault) ==
    LET plain == PostHandler(rows, header, body)
    IN  IF plain.status = 401 THEN Returned(plain)
        ELSE IF fault = "json" THEN Thrown("SyntaxError", rows)
        ELSE IF plain.status = 400 THEN Returned(plain)
        ELSE IF LoopThrows(body.entries) THEN Thrown("TypeError", rows)
        ELSE IF fault = "store" THEN Thrown("PrismaClientInitializationError", rows)
        ELSE IF plain.status = 500
        THEN Thrown("PrismaClientValidationError", plain.rows)
        ELSE Returned(plain)

\* The try block of GET /api/responses.
GetTry(rows, header, fault) ==
    LET plain == GetHandler(rows, header)
    IN  IF plain.status = 401 THEN Returned(plain)
        ELSE IF fault = "store" THEN Thrown("PrismaClientInitializationError", rows)
        ELSE Returned(plain)

\* The try block of DELETE /api/responses/{year}.
DeleteTry(rows, header, yearParam, fault) ==
    LET plain == DeleteHandler(rows, header, yearParam)
    IN  IF plain.status \in {400, 401} THEN Returned(plain)
        ELSE IF fault = "store" THEN Thrown("PrismaClientInitializationError", rows)
        ELSE Returned(plain)

\* The try block of POST /api/auth/signup, for one request at a time.
SignupTry(rows, body, fault) ==
    IF fault = "json" THEN Thrown("SyntaxError", rows)
    ELSE IF Falsy(body, "name") \/ Falsy(body, "email") \/ Falsy(body, "password")
    THEN Returned(Reply(400, "Name, email, and password are required.", <<>>, rows))
    ELSE IF fault = "store" THEN Thrown("PrismaClientInitializationError", rows)
    ELSE IF FindUnique(rows, body.email) # {}
    THEN Returned(Reply(409, "User with this email already exists.", <<>>, rows))
    ELSE Returned(Reply(201, "", <<>>,
                        rows \cup {UserRow(UserIds[Cardinality(rows) + 1], body.name,
                                           body.email, hashPassword(body.password))}))

\* The try block of POST /api/auth/login.
LoginTry(rows, body, fault) ==
    LET found == FindUnique(rows, body.email)
        user == CHOOSE u \in found : TRUE
    IN  IF fault = "json" THEN Thrown("SyntaxError", rows)
        ELSE IF Falsy(body, "email") \/ Falsy(body, "password")
        THEN Returned(Reply(400, "Email and password are required.", <<>>, rows))
        ELSE IF fault = "store" THEN Thrown("PrismaClientInitializationError", rows)
        ELSE IF found = {} \/ ~verifyPassword(body.password, user.password)
        THEN Returned(Reply(401, "Invalid credentials.", <<>>, rows))
        ELSE Returned(Reply(200, "", <<>>, rows))

\* The fixed message of each handler's catch block.
CatchMessage(handler) ==
    CASE handler = "POST" -> "Internal server error while saving ESG responses."
      [] handler = "GET" -> "Internal server error while fetching ESG responses."
      [] handler = "DELETE" -> "Internal server error while deleting ESG response."
      [] handler = "signup" -> "Internal server error during signup."
      [] handler = "login" -> "Internal server error during login."

\* What the caller of a handler gets.
Outcome(handler, header, yearParam, body, fault, result) ==
    [method |-> handler, header |-> header, yearParam |-> yearParam, body |-> body,
     status |-> result.status, error |-> result.error, responses |-> result.responses,
     fault |-> fault, thrown |-> result.thrown, propagated |-> result.propagated]

BoundaryPost ==
    \E req \in ApiPostRequests, fault \in Faults :
        LET result == Catch(PostTry(store, req[1], req[2], fault), CatchMessage("POST"))
        IN  /\ store' = result.rows
            /\ lastApi' = Outcome("POST", req[1], <<>>, req[2], fault, result)
            /\ UNCHANGED <<formVars, pageVars, serverVars, yearVars>>

BoundaryGet ==
    \E header \in ApiHeaders, fault \in Faults :
        LET result == Catch(GetTry(store, header, fault), CatchMessage("GET"))
        IN  /\ lastApi' = Outcome("GET", header, <<>>, NoBody, fault, result)
            /\ UNCHANGED <<formVars, pageVars, store, serverVars, yearVars>>

BoundaryDelete ==
    \E req \in ApiDeleteRequests, fault \in Faults :
        LET result == Catch(DeleteTry(store, req[1], req[2], fault),
                            CatchMessage("DELETE"))
        IN  /\ store' = result.rows
            /\ lastApi' = Outcome("DELETE", req[1], req[2], NoBody, fault, result)
            /\ UNCHANGED <<formVars, pageVars, serverVars, yearVars>>

BoundarySignup ==
    \E body \in SignupBodies, fault \in Faults :
        LET result == Catch(SignupTry(users, body, fault), CatchMessage("signup"))
        IN  /\ Cardinality(result.rows) <= Len(UserIds)
            /\ users' = result.rows
            /\ lastApi' = Outcome("signup", NoHeader, <<>>, body, fault, result)
            /\ UNCHANGED <<formVars, pageVars, store, authCalls, now, issued,
                           lastVerify, saveCalls, yearVars>>

BoundaryLogin ==
    \E body \in LoginBodies, fault \in Faults :
        LET result == Catch(LoginTry(users, body, fault), CatchMessage("login"))
        IN  /\ lastApi' = Outcome("login", NoHeader, <<>>, body, fault, result)
            /\ UNCHANGED <<formVars, pageVars, store, serverVars, yearVars>>

NextBoundary ==
    BoundaryPost \/ BoundaryGet \/ BoundaryDelete \/ BoundarySignup \/ BoundaryLogin

SpecBoundary == InitApi /\ [][NextBoundary]_vars

----------------------------------------------------------------------------
(* Tokens over time: generateToken and verifyToken called at the server's  *)
(* clock, verifyToken also on strings that generateToken never returned.   *)

\* half seconds the clock may stand beyond 0 and beyond the long wait
MaxSlack == 2

\* tokens generateToken returns in one behaviour
MaxIssued == 2

\* The steps of the clock in milliseconds: half a second, and one second
\* less than the 7 days.
LongWait == 1000 * ExpiresIn - 1000

Durations == {500, LongWait}

\* A string that is no token.
MalformedToken ==
    [kind |-> "malformed", payload |-> "object", hasUserId |-> FALSE, userId |-> NoUser,
     hasExp |-> FALSE, iat |-> 0, exp |-> 0, key |-> ""]

\* Tokens generateToken did not return: signed with another key; signed
\* with the server's key over a payload without userId, over a string, and
\* over a payload with a userId and no exp.
ForeignTokens ==
    { MalformedToken,
      jwtSign("alice", "another secret", 0),
      [jwtSign("alice", JWT_SECRET_KEY, 0) EXCEPT !.hasUserId = FALSE, !.userId = NoUser],
      [jwtSign("alice", JWT_SECRET_KEY, 0) EXCEPT !.payload = "string",
                                                   !.hasUserId = FALSE, !.userId = NoUser,
                                                   !.hasExp = FALSE, !.exp = 0],
      [jwtSign("bob", JWT_SECRET_KEY, 0) EXCEPT !.hasExp = FALSE, !.exp = 0] }

\* Time passes.
TokenTick ==
    \E d \in Durations :
        /\ (now + d) \div LongWait <= 1
        /\ (now + d) % LongWait <= 500 * MaxSlack
        /\ now' = now + d
        /\ UNCHANGED <<formVars, pageVars, store, lastApi, users, authCalls, issued,
                       lastVerify, saveCalls, yearVars>>

\* generateToken(user.id), as login calls it
TokenIssue ==
    \E userId \in Users :
        /\ Cardinality(issued) < MaxIssued
        /\ issued' = issued \cup {[token |-> generateToken(userId, now), at |-> now]}
        /\ UNCHANGED <<formVars, pageVars, store, lastApi, users, authCalls, now,
                       lastVerify, saveCalls, yearVars>>

\* verifyToken(token), as the handlers of /api/responses call it
TokenVerify ==
    \E token \in {i.token : i \in issued} \cup ForeignTokens :
        /\ lastVerify' = [ran |-> TRUE, token |-> token, at |-> now,
                          result |-> verifyTokenAt(token, now)]
        /\ UNCHANGED <<formVars, pageVars, store, lastApi, users, authCalls, now,
                       issued, saveCalls, yearVars>>

InitToken ==
    /\ activeYear \in FormYears
    /\ yearData = EmptyData
    /\ calculatedData = calculateESGMetrics(yearData)
    /\ fieldErrors = <<>>
    /\ lastSubmit = NoSubmit
    /\ isSubmitting = FALSE
    /\ submitError = ""
    /\ submitSuccess = FALSE
    /\ initialFetchedData = <<>>
    /\ authToken = NoToken
    /\ pagePc = "idle"
    /\ request = NoRequest
    /\ response = NoResponse
    /\ store = {}
    /\ lastApi = NoApi
    /\ edits = 0
    /\ users = SeedUsers
    /\ authCalls = <<>>
    /\ now = 0
    /\ issued = {}
    /\ lastVerify = NoVerify
    /\ saveCalls = <<>>
    /\ YearsUnmounted

NextToken == TokenTick \/ TokenIssue \/ TokenVerify

SpecToken == InitToken /\ [][NextToken]_vars

----------------------------------------------------------------------------
(* Concurrent saves.  POST /api/responses awaits Promise.all over its      *)
(* upserts, so the upserts of one request and of other requests reach the  *)
(* database in any order.  An upsert looks the row up and then updates or  *)
(* inserts it; the database runs it as one statement (the lookup directly  *)
(* followed by the write) or as two, and then a row inserted or deleted in *)
(* between makes the write fail on the unique index or on the missing row. *)

\* POST requests in one behaviour
MaxSaveCalls == 2

\* A complete record other than the saved one, as the form sends it.
RevisedRecord ==
    Spread(SavedRaw, calculateESGMetrics([SavedRaw EXCEPT !.totalRevenue = Int2Num(50)]))

RevisedFull == [RevisedRecord EXCEPT !.totalRevenue = Int2Num(50)]

\* The bodies of the saves: complete records, and one with its derived
\* fields absent.
SaveBodies ==
    { ResponsesBody(<<Entry(Key2023, SavedRecord)>>),
      ResponsesBody(<<Entry(Key2023, RevisedFull), Entry(Key2024, SavedRecord)>>),
      ResponsesBody(<<Entry(Key2023, RawOnlyRevised)>>) }

SaveRequests ==
    {<<Bearer(Token("alice", TRUE)), body>> : body \in SaveBodies}
    \cup {<<Bearer(Token("bob", TRUE)), ResponsesBody(<<Entry(Key2023, SavedRecord)>>)>>}

\* POST up to await Promise.all: the token is verified, the body read, the
\* upserts prepared.  phase[k] is where upsert k stands.
SaveReceive ==
    \E req \in SaveRequests :
        LET userId == verifyToken(getTokenFromHeader(req[1]))
            ops == UpsertOps(req[2].entries)
        IN  /\ Len(saveCalls) < MaxSaveCalls
            /\ userId # NoUser
            /\ req[2].kind = "object" /\ ~LoopThrows(req[2].entries) /\ Len(ops) > 0
            /\ saveCalls' = Append(saveCalls,
                  [userId |-> userId, ops |-> ops,
                   phase |-> [k \in DOMAIN ops |-> "pending"],
                   pc |-> "awaitAll", status |-> 0])
            /\ UNCHANGED <<formVars, pageVars, store, lastApi, authVars, yearVars>>

\* prisma.eSGResponse.upsert: the arguments are validated, the row is
\* looked up by userId_year.
UpsertLookup ==
    \E c \in DOMAIN saveCalls : \E k \in DOMAIN saveCalls[c].ops :
        LET call == saveCalls[c]
            op == call.ops[k]
        IN  /\ call.phase[k] = "pending"
            /\ saveCalls' = [saveCalls EXCEPT ![c].phase[k] =
                  IF ~PrismaAcceptsData(op.data) THEN "failed"
                  ELSE IF RowsOf(store, call.userId, op.year) # {} THEN "update"
                  ELSE "create"]
            /\ UNCHANGED <<formVars, pageVars, store, lastApi, authVars, yearVars>>

\* Variant: no unique index on (userId, year), the insert a lookup decided
\* on always goes through.
UpsertWriteNoIndex ==
    \E c \in DOMAIN saveCalls : \E k \in DOMAIN saveCalls[c].ops :
        LET call == saveCalls[c]
            op == call.ops[k]
            exists == RowsOf(store, call.userId, op.year) # {}
        IN  /\ call.phase[k] \in {"update", "create"}
            /\ IF call.phase[k] = "create"
               THEN /\ store' = store \cup
                          {[userId |-> call.userId, year |-> op.year,
                            data |-> [f \in ESGFields |->
                                        IF op.data[f] = Undefined THEN Null
                                        ELSE op.data[f]]]}
                    /\ saveCalls' = [saveCalls EXCEPT ![c].phase[k] = "done"]
               ELSE IF exists
               THEN /\ store' = Upsert(store, call.userId, op.year, op.data)
                    /\ saveCalls' = [saveCalls EXCEPT ![c].phase[k] = "done"]
               ELSE /\ saveCalls' = [saveCalls EXCEPT ![c].phase[k] = "failed"]
                    /\ UNCHANGED store
            /\ UNCHANGED <<formVars, pageVars, lastApi, authVars, yearVars>>

\* prisma.eSGResponse.upsert: the row is updated or inserted in one
\* statement; the statement fails when the row it was to update is gone or
\* the row it was to insert is there.
UpsertWrite ==
    \E c \in DOMAIN saveCalls : \E k \in DOMAIN saveCalls[c].ops :
        LET call == saveCalls[c]
            op == call.ops[k]
            exists == RowsOf(store, call.userId, op.year) # {}
        IN  /\ call.phase[k] \in {"update", "create"}
            /\ IF (call.phase[k] = "update") = exists
               THEN /\ store' = Upsert(store, call.userId, op.year, op.data)
                    /\ saveCalls' = [saveCalls EXCEPT ![c].phase[k] = "done"]
               ELSE /\ saveCalls' = [saveCalls EXCEPT ![c].phase[k] = "failed"]
                    /\ UNCHANGED store
            /\ UNCHANGED <<formVars, pageVars, lastApi, authVars, yearVars>>

\* POST after await Promise.all: 200 once every upsert is done, 500 from the
\* catch as soon as one has failed (the others still run).
SaveReply ==
    \E c \in DOMAIN saveCalls :
        LET call == saveCalls[c]
            failed == \E k \in DOMAIN call.ops : call.phase[k] = "failed"
            done == \A k \in DOMAIN call.ops : call.phase[k] = "done"
        IN  /\ call.pc = "awaitAll"
            /\ failed \/ done
            /\ saveCalls' = [saveCalls EXCEPT ![c].pc = "done",
                                              ![c].status = IF failed THEN 500 ELSE 200]
            /\ UNCHANGED <<formVars, pageVars, store, lastApi, authVars, yearVars>>

\* DELETE /api/responses/2023 of alice between the steps of the saves.
SaveDelete ==
    LET reply == DeleteHandler(store, Bearer(Token("alice", TRUE)), Key2023)
    IN  /\ reply.status = 200
        /\ store' = reply.rows
        /\ lastApi' = [method |-> "DELETE", header |-> Bearer(Token("alice", TRUE)),
                       yearParam |-> Key2023, body |-> NoBody, status |-> reply.status,
                       error |-> reply.error, responses |-> <<>>]
        /\ UNCHANGED <<formVars, pageVars, serverVars, yearVars>>

InitSave ==
    /\ activeYear \in FormYears
    /\ yearData = EmptyData
    /\ calculatedData = calculateESGMetrics(yearData)
    /\ fieldErrors = <<>>
    /\ lastSubmit = NoSubmit
    /\ isSubmitting = FALSE
    /\ submitError = ""
    /\ submitSuccess = FALSE
    /\ initialFetchedData = <<>>
    /\ authToken = NoToken
    /\ pagePc = "idle"
    /\ request = NoRequest
    /\ response = NoResponse
    /\ store \in {{}, {[userId |-> "alice", year |-> 2023, data |-> SavedRecord]}}
    /\ lastApi = NoApi
    /\ edits = 0
    /\ users = SeedUsers
    /\ authCalls = <<>>
    /\ now = 0
    /\ issued = {}
    /\ lastVerify = NoVerify
    /\ saveCalls = <<>>
    /\ YearsUnmounted

NextSave ==
    \/ SaveReceive
    \/ UpsertLookup
    \/ UpsertWrite
    \/ SaveReply
    \/ SaveDelete

SpecSave == InitSave /\ [][NextSave]_vars

----------------------------------------------------------------------------
(* The contract of the Metrics Engine, stated without its code *)

Present(v) == v # Null /\ v # Undefined

IsZero(v) == v.t = "number" /\ v.n = 0

\* q is the IEEE quotient a / b of two numbers, b not zero.
IsQuotient(q, a, b) ==
    IF a.t = "number" /\ b.t = "number"
    THEN q.t = "number" /\ q.n * b.n * a.d = a.n * b.d * q.d
    ELSE IF a.t = "NaN" \/ b.t = "NaN" \/ (a.t = "Infinity" /\ b.t = "Infinity")
    THEN q.t = "NaN"
    ELSE IF a.t = "Infinity"
    THEN q.t = "Infinity" /\ q.n * Sign(b) = Sign(a)
    ELSE IsZero(q)

\* q is 100 times the IEEE quotient a / b of two numbers, b not zero.
IsPercentage(q, a, b) ==
    IF a.t = "number" /\ b.t = "number"
    THEN q.t = "number" /\ q.n * b.n * a.d = 100 * a.n * b.d * q.d
    ELSE IsQuotient(q, a, b)

\* C1: for every record R the form holds, the carbonIntensity calculated
\* from it is R.carbonEmissions / R.totalRevenue when both are non-null and
\* totalRevenue is not 0, and null in every other case.
C1_CarbonIntensity ==
    LET ce == yearData.carbonEmissions
        rev == yearData.totalRevenue
        q == calculatedData.carbonIntensity
    IN  IF Present(ce) /\ Present(rev) /\ ~IsZero(rev)
        THEN q # Null /\ IsQuotient(q, ce, rev)
        ELSE q = Null

C1_Witness ==
    /\ edits > 0
    /\ yearData.carbonEmissions = Int2Num(50)
    /\ yearData.totalRevenue = Int2Num(1000)
    /\ calculatedData.carbonIntensity = Rat(1, 20)

PercentageHolds(q, num, den) ==
    IF Present(num) /\ Present(den) /\ ~IsZero(den)
    THEN q # Null /\ IsPercentage(q, num, den)
    ELSE q = Null

C2_Formulas ==
    /\ PercentageHolds(calculatedData.renewableElectricityRatio,
                       yearData.renewableElectricityConsumption,
                       yearData.totalElectricityConsumption)
    /\ PercentageHolds(calculatedData.diversityRatio,
                       yearData.femaleEmployees, yearData.totalEmployees)
    /\ PercentageHolds(calculatedData.communitySpendRatio,
                       yearData.communityInvestment, yearData.totalRevenue)

\* A step that leaves the two operands of a metric alone leaves the metric alone.
C2_OwnOperandsOnly ==
    /\ (/\ yearData'.renewableElectricityConsumption = yearData.renewableElectricityConsumption
        /\ yearData'.totalElectricityConsumption = yearData.totalElectricityConsumption)
       => calculatedData'.renewableElectricityRatio = calculatedData.renewableElectricityRatio
    /\ (/\ yearData'.femaleEmployees = yearData.femaleEmployees
        /\ yearData'.totalEmployees = yearData.totalEmployees)
       => calculatedData'.diversityRatio = calculatedData.diversityRatio
    /\ (/\ yearData'.communityInvestment = yearData.communityInvestment
        /\ yearData'.totalRevenue = yearData.totalRevenue)
       => calculatedData'.communitySpendRatio = calculatedData.communitySpendRatio

\* C2: each of renewableElectricityRatio, diversityRatio and
\* communitySpendRatio is 100 * numerator / denominator when both operands
\* are non-null and the denominator is not 0, null otherwise, and changes
\* only when one of its own two operands changes.
C2_Percentages == []C2_Formulas /\ [][C2_OwnOperandsOnly]_vars

C2_Witness ==
    /\ edits > 0
    /\ yearData.femaleEmployees = Int2Num(50)
    /\ yearData.totalEmployees = Int2Num(10)
    /\ yearData.totalRevenue = Int2Num(1000)
    /\ calculatedData.diversityRatio = Int2Num(500)
    /\ calculatedData.communitySpendRatio = Int2Num(0)

FiniteOrNull(v) == v = Null \/ v.t = "number"

\* C3: each of the four derived metrics is a finite number or null, never
\* NaN or Infinity, whatever record the engine is applied to.
C3_FiniteOrNull ==
    \A f \in DerivedFields : FiniteOrNull(calculatedData[f])

\* C4: every stored record's derived fields equal the Metrics Engine applied
\* to the raw fields stored in the same record.
C4_StoredDerivedFromRaw ==
    \A r \in store :
        \A f \in DerivedFields : r.data[f] = calculateESGMetrics(r.data)[f]

----------------------------------------------------------------------------
(* The validation rules, stated without the code of handleSubmit *)

StrictlyPositiveFields ==
    {"totalElectricityConsumption", "averageTrainingHours", "totalEmployees",
     "femaleEmployees"}

CountFields == {"totalEmployees", "femaleEmployees"}

NonNegativeFieldSet ==
    {"renewableElectricityConsumption", "totalFuelConsumption", "carbonEmissions",
     "communityInvestment", "totalRevenue", "independentBoardMembers"}

\* The second field of each ordered pair, by its first.
PairSecond(first) ==
    CASE first = "femaleEmployees" -> "totalEmployees"
      [] first = "renewableElectricityConsumption" -> "totalElectricityConsumption"
      [] first = "communityInvestment" -> "totalRevenue"

PairFirsts == {"femaleEmployees", "renewableElectricityConsumption", "communityInvestment"}

Rule(kind, field) == [kind |-> kind, field |-> field]

Rules ==
    {Rule("required", f) : f \in NumericRawFields}
    \cup {Rule("nonNegative", f) : f \in NonNegativeFieldSet}
    \cup {Rule("positive", f) : f \in StrictlyPositiveFields}
    \cup {Rule("integer", f) : f \in CountFields}
    \cup {Rule("pair", f) : f \in PairFirsts}
    \cup {Rule("policy", "hasDataPrivacyPolicy"), Rule("range", "independentBoardMembers")}

Zero == Int2Num(0)

Violated(rule, yd) ==
    LET v == yd[rule.field]
    IN  CASE rule.kind = "required" -> ~Present(v)
          [] rule.kind = "nonNegative" -> Present(v) /\ JsLt(v, Zero)
          [] rule.kind = "positive" -> Present(v) /\ (JsLt(v, Zero) \/ IsZero(v))
          [] rule.kind = "integer" -> Present(v) /\ JsGt(v, Zero) /\ ~NumberIsInteger(v)
          [] rule.kind = "pair" ->
                /\ Present(v) /\ Present(yd[PairSecond(rule.field)])
                /\ JsGt(v, yd[PairSecond(rule.field)])
          [] rule.kind = "policy" -> v # True /\ v # False
          [] rule.kind = "range" ->
                Present(v) /\ (JsLt(v, Zero) \/ JsGt(v, Int2Num(100)))

ViolatedRules(yd) == {r \in Rules : Violated(r, yd)}

\* The entries of an errors array that name a field.
EntriesFor(errs, field) == {i \in DOMAIN errs : errs[i].field = field}

HasEntry(errs, field, message) ==
    \E i \in DOMAIN errs : errs[i] = [field |-> field, message |-> message]

Rejected == lastSubmit.ran /\ ~lastSubmit.called

\* C5: a run of handleSubmit evaluates every rule: its errors array holds
\* one (field, message) entry per violated rule, so at least 3 entries for a
\* record that violates 3 rules.
C5_CollectAll ==
    lastSubmit.ran =>
        /\ Len(lastSubmit.errors) = Cardinality(ViolatedRules(lastSubmit.data))
        /\ \A f \in ESGFields :
              Cardinality(EntriesFor(lastSubmit.errors, f))
                 = Cardinality({r \in ViolatedRules(lastSubmit.data) : r.field = f})
        /\ \A i \in DOMAIN lastSubmit.errors : lastSubmit.errors[i].message # <<>>

C5_Witness ==
    /\ lastSubmit.ran
    /\ edits > 0
    /\ {Rule("positive", "averageTrainingHours"), Rule("policy", "hasDataPrivacyPolicy"),
        Rule("pair", "femaleEmployees")} \subseteq ViolatedRules(lastSubmit.data)
    /\ Len(lastSubmit.errors) >= 3

\* A run of handleSubmit that found a violation sends nothing and leaves the
\* table alone; a save request leaves the page only from a run without one.
C6_NoSaveOnViolation ==
    /\ (lastSubmit' # lastSubmit /\ lastSubmit'.errors # <<>>)
          => (request' = request /\ store' = store /\ pagePc' = pagePc)
    /\ (request' # request /\ request'.method = "POST")
          => (lastSubmit'.ran /\ lastSubmit'.called /\ lastSubmit'.errors = <<>>)

C6_CalledIffNoErrors ==
    lastSubmit.ran => (lastSubmit.called <=> lastSubmit.errors = <<>>)

\* C6: handleSubmit invokes onSubmit if and only if its errors array is
\* empty; a run that found a violation issues no save request and leaves the
\* stored data unchanged.
C6_SubmitIffValid == []C6_CalledIffNoErrors /\ [][C6_NoSaveOnViolation]_vars

C6_Witness ==
    /\ lastSubmit.ran
    /\ lastSubmit.errors # <<>>
    /\ ~lastSubmit.called
    /\ request = NoRequest
    /\ \E r \in store : r.data = SavedRecord

PositiveMessage(f) ==
    CASE f = "totalElectricityConsumption" ->
            <<"Total Electricity Consumption (kWh) must be greater than 0.">>
      [] f = "averageTrainingHours" ->
            <<"Average Training Hours per Employee (per year) must be greater than 0.">>
      [] f = "totalEmployees" -> <<"Total Number of Employees must be greater than 0.">>
      [] f = "femaleEmployees" -> <<"Number of Female Employees must be greater than 0.">>

IntegerMessage(f) ==
    CASE f = "totalEmployees" ->
            <<"Total Number of Employees must be a whole number (integer).">>
      [] f = "femaleEmployees" ->
            <<"Number of Female Employees must be a whole number (integer).">>

\* C8: a record is rejected whenever totalElectricityConsumption,
\* averageTrainingHours, totalEmployees or femaleEmployees is present and
\* <= 0, and whenever totalEmployees or femaleEmployees is present, positive
\* and not an integer; a positive value (integral for the two counts) raises
\* neither violation.
C8_StrictlyPositive ==
    lastSubmit.ran =>
        /\ \A f \in StrictlyPositiveFields :
              LET v == lastSubmit.data[f]
              IN  IF Present(v) /\ (JsLt(v, Zero) \/ IsZero(v))
                  THEN Rejected /\ HasEntry(lastSubmit.errors, f, PositiveMessage(f))
                  ELSE ~HasEntry(lastSubmit.errors, f, PositiveMessage(f))
        /\ \A f \in CountFields :
              LET v == lastSubmit.data[f]
              IN  IF Present(v) /\ JsGt(v, Zero) /\ ~NumberIsInteger(v)
                  THEN Rejected /\ HasEntry(lastSubmit.errors, f, IntegerMessage(f))
                  ELSE ~HasEntry(lastSubmit.errors, f, IntegerMessage(f))

C8_Witness ==
    /\ lastSubmit.ran
    /\ lastSubmit.data.totalElectricityConsumption = Zero
    /\ lastSubmit.data.totalEmployees = Rat(1, 2)
    /\ Rejected
    /\ HasEntry(lastSubmit.errors, "totalElectricityConsumption",
                PositiveMessage("totalElectricityConsumption"))
    /\ HasEntry(lastSubmit.errors, "totalEmployees", IntegerMessage("totalEmployees"))

\* C9: a record is rejected with a violation on the field whenever
\* renewableElectricityConsumption, totalFuelConsumption, carbonEmissions,
\* communityInvestment, totalRevenue or independentBoardMembers is present
\* and negative; exactly 0 raises no non-negativity violation.
C9_NonNegative ==
    lastSubmit.ran =>
        \A f \in NonNegativeFieldSet :
            LET v == lastSubmit.data[f]
            IN  IF Present(v) /\ JsLt(v, Zero)
                THEN Rejected /\ HasEntry(lastSubmit.errors, f, NonNegativeMessage(f))
                ELSE ~HasEntry(lastSubmit.errors, f, NonNegativeMessage(f))

C9_Witness ==
    /\ lastSubmit.ran
    /\ lastSubmit.data.carbonEmissions = Int2Num(-1)
    /\ lastSubmit.data.totalFuelConsumption = Zero
    /\ Rejected
    /\ HasEntry(lastSubmit.errors, "carbonEmissions", NonNegativeMessage("carbonEmissions"))
    /\ EntriesFor(lastSubmit.errors, "totalFuelConsumption") = {}

PairMessage(first) ==
    CASE first = "femaleEmployees" ->
            <<"Number of female employees cannot be greater than total employees.">>
      [] first = "renewableElectricityConsumption" ->
            <<"Renewable electricity consumption cannot be greater than total electricity consumption.">>
      [] first = "communityInvestment" ->
            <<"Community investment spend cannot be greater than total revenue.">>

\* C10: for each ordered pair (femaleEmployees, totalEmployees),
\* (renewableElectricityConsumption, totalElectricityConsumption),
\* (communityInvestment, totalRevenue): when both are present and the first
\* is greater than the second the record is rejected with a violation on the
\* first field; when they are equal no cross-field violation is raised.
C10_CrossField ==
    lastSubmit.ran =>
        \A first \in PairFirsts :
            LET a == lastSubmit.data[first]
                b == lastSubmit.data[PairSecond(first)]
            IN  /\ (Present(a) /\ Present(b) /\ JsGt(a, b))
                      => Rejected /\ HasEntry(lastSubmit.errors, first, PairMessage(first))
                /\ (Present(a) /\ Present(b) /\ a = b)
                      => ~HasEntry(lastSubmit.errors, first, PairMessage(first))

C10_Witness ==
    /\ lastSubmit.ran
    /\ lastSubmit.data.femaleEmployees = Int2Num(50)
    /\ lastSubmit.data.totalEmployees = Int2Num(40)
    /\ lastSubmit.data.communityInvestment = lastSubmit.data.totalRevenue
    /\ Present(lastSubmit.data.totalRevenue)
    /\ Rejected
    /\ HasEntry(lastSubmit.errors, "femaleEmployees", PairMessage("femaleEmployees"))

\* C11: independentBoardMembers is accepted exactly when 0 <= value <= 100:
\* a submitted value inside the interval (0 and 100 included) raises no
\* violation on the field, a value above 100 or below 0 rejects the record
\* with the range violation on the field.
C11_BoardRange ==
    lastSubmit.ran =>
        LET v == lastSubmit.data.independentBoardMembers
        IN  Present(v) =>
                IF JsLe(Zero, v) /\ JsLe(v, Int2Num(100))
                THEN EntriesFor(lastSubmit.errors, "independentBoardMembers") = {}
                ELSE /\ Rejected
                     /\ HasEntry(lastSubmit.errors, "independentBoardMembers",
                                 <<"% of independent board members must be between 0 and 100.">>)

C11_Witness ==
    /\ lastSubmit.ran
    /\ lastSubmit.called
    /\ lastSubmit.data.independentBoardMembers = Int2Num(100)

----------------------------------------------------------------------------
(* The contract of signup and login *)

SignupCalls == {i \in DOMAIN authCalls : authCalls[i].op = "signup" /\ authCalls[i].pc = "done"}

\* The rows a signup answered 201 points to.
RowsOfCall(i) == {u \in users : u.id = authCalls[i].userId}

\* C12: an answered signup got 400 when name, email or password was missing
\* or empty, 409 when a User with its email already existed, and 201
\* otherwise; a 201 names exactly one User row, which holds the request's
\* name and email and the hash of its password, not the password; a 400 or
\* 409 names no row, and every row but the one present from the start was
\* created by exactly one 201.
C12_Signup ==
    /\ \A i \in SignupCalls :
          LET call == authCalls[i]
          IN  IF call.name = "" \/ call.email = "" \/ call.password = ""
              THEN call.status = 400 /\ call.userId = NoUser
              ELSE IF call.existed
              THEN call.status = 409 /\ call.userId = NoUser
              ELSE /\ call.status = 201
                   /\ call.userName = call.name
                   /\ \E u \in users :
                         /\ RowsOfCall(i) = {u}
                         /\ u.name = call.name
                         /\ u.email = call.email
                         /\ u.password = hashPassword(call.password)
    /\ \A u \in users :
          \/ u = UserRow("alice", "A B", "a@b.com", hashPassword("abcdef"))
          \/ Cardinality({i \in SignupCalls :
                            authCalls[i].status = 201 /\ authCalls[i].userId = u.id}) = 1

LoginCalls == {i \in DOMAIN authCalls : authCalls[i].op = "login" /\ authCalls[i].pc = "done"}

\* What the client of an answered login sees.
LoginResponse(i) ==
    [status |-> authCalls[i].status, error |-> authCalls[i].error,
     userId |-> authCalls[i].userId, userName |-> authCalls[i].userName,
     token |-> authCalls[i].token]

UnknownEmail(i) ==
    /\ authCalls[i].email # "" /\ authCalls[i].password # ""
    /\ ~authCalls[i].existed

WrongPassword(i) ==
    /\ authCalls[i].email # "" /\ authCalls[i].password # ""
    /\ authCalls[i].existed
    /\ \A u \in FindUnique(users, authCalls[i].email) :
          u.password # hashPassword(authCalls[i].password)

\* C13: a login is answered 200 only when a User row has its email and the
\* row's hash is the hash of its password, and then the token verifies to
\* that row's id; a login with an unknown email and a login with a known
\* email and a wrong password get the same answer, status 401 with the same
\* error and nothing else.
C13_Login ==
    /\ \A i \in LoginCalls :
          authCalls[i].status = 200 =>
              \E u \in users :
                  /\ u.email = authCalls[i].email
                  /\ u.password = hashPassword(authCalls[i].password)
                  /\ authCalls[i].userId = u.id
                  /\ verifyTokenAt(authCalls[i].token, now) = u.id
    /\ \A i \in LoginCalls :
          (UnknownEmail(i) \/ WrongPassword(i)) =>
              LoginResponse(i) = [status |-> 401, error |-> "Invalid credentials.",
                                  userId |-> NoUser, userName |-> "", token |-> NoToken]
    /\ \A i, j \in LoginCalls :
          (UnknownEmail(i) /\ WrongPassword(j)) => LoginResponse(i) = LoginResponse(j)

C13_Witness ==
    \E i, j, k \in LoginCalls :
        /\ UnknownEmail(i)
        /\ WrongPassword(j)
        /\ authCalls[k].status = 200
        /\ verifyTokenAt(authCalls[k].token, now) = "alice"

----------------------------------------------------------------------------
(* The contract of /api/responses, for clients that send one request at a  *)
(* time *)

\* The header is absent, is no Bearer header, or its token does not verify.
Unauthenticated(header) ==
    \/ header = NoHeader
    \/ header.scheme # "Bearer"
    \/ ~header.token.ok

C14_Status ==
    (lastApi.method \in {"GET", "POST", "DELETE"} /\ Unauthenticated(lastApi.header))
        => lastApi.status = 401

C14_StoreUnchanged ==
    Unauthenticated(lastApi'.header) => store' = store

\* C14: a GET, POST or DELETE whose Authorization header is absent, is not
\* a Bearer header or carries a token that does not verify is answered 401
\* and leaves the store as it was, whatever else the request holds.
C14_Unauthorized == []C14_Status /\ [][C14_StoreUnchanged]_vars

Authenticated(header) == ~Unauthenticated(header)

\* The string is an integer in decimal digits, and nothing else.
IsIntegerString(s) == Len(s) > 0 /\ \A i \in DOMAIN s : IsDigit(s[i])

YearsOf(rows, userId) == {r.year : r \in {x \in rows : x.userId = userId}}

\* A DELETE by an authenticated user: 400 for a year that is no integer,
\* 404 and no change when the user has no record for the year, 200 and the
\* record removed (and nothing else) when it has one.
C15_DeleteStep ==
    (lastApi'.method = "DELETE" /\ Authenticated(lastApi'.header)) =>
        LET userId == lastApi'.header.token.sub
            param == lastApi'.yearParam
            year == DigitsValue(param, 1, Len(param) + 1, 0)
        IN  IF ~IsIntegerString(param)
            THEN lastApi'.status = 400 /\ store' = store
            ELSE IF year \notin YearsOf(store, userId)
            THEN lastApi'.status = 404 /\ store' = store
            ELSE /\ lastApi'.status = 200
                 /\ store' = {r \in store : ~(r.userId = userId /\ r.year = year)}

\* A year comes back into a user's records only by a POST of that user.
C15_SavedAgain ==
    \A userId \in Users :
        (YearsOf(store', userId) \ YearsOf(store, userId)) # {} =>
            /\ lastApi'.method = "POST"
            /\ Authenticated(lastApi'.header)
            /\ lastApi'.header.token.sub = userId

\* A GET by an authenticated user has one key per year the store holds for
\* that user.
C15_GetKeys ==
    (lastApi.method = "GET" /\ Authenticated(lastApi.header)) =>
        /\ lastApi.status = 200
        /\ DOMAIN lastApi.responses = YearsOf(store, lastApi.header.token.sub)

\* C15: an authenticated DELETE /responses/{year} returns 400 when the year
\* is not a valid integer, 404 and no change when the user has no record for
\* the year, 200 when the record existed; the record is then removed, and
\* every later GET by the user has no key for the year until a POST of that
\* user saves it again.
C15_Delete == [][C15_DeleteStep /\ C15_SavedAgain]_vars /\ []C15_GetKeys

\* The payload has the shape { responses: { year: record of fields } }.
ValidShape(body) ==
    /\ body.kind = "object"
    /\ \A i \in DOMAIN body.entries : IsFieldRecord(body.entries[i].data)

NoPopulatedField(data) == \A f \in DOMAIN data : data[f] = Null \/ data[f] = Undefined

\* The row holds the payload's value in every field the payload has.
HoldsPayload(row, data) ==
    \A f \in ESGFields : data[f] # Undefined => row.data[f] = data[f]

C16_PostStep ==
    (lastApi'.method = "POST" /\ Authenticated(lastApi'.header)) =>
        LET userId == lastApi'.header.token.sub
            body == lastApi'.body
            YearOf(i) == parseInt(body.entries[i].key)
            skipped == {i \in DOMAIN body.entries :
                          YearOf(i).t = "number" /\ NoPopulatedField(body.entries[i].data)}
            saved == {i \in DOMAIN body.entries :
                          /\ YearOf(i).t = "number"
                          /\ ~NoPopulatedField(body.entries[i].data)
                          /\ PrismaAcceptsData(body.entries[i].data)}
        IN  IF ~ValidShape(body)
            THEN lastApi'.status = 400 /\ store' = store
            ELSE /\ \A i \in skipped :
                       RowsOf(store', userId, YearOf(i).n) = RowsOf(store, userId, YearOf(i).n)
                 /\ \A i \in saved :
                       \E r \in RowsOf(store', userId, YearOf(i).n) :
                           HoldsPayload(r, body.entries[i].data)
                 /\ (saved = {} /\ skipped = DOMAIN body.entries)
                       => lastApi'.status = 400 /\ store' = store

\* C16: in an authenticated POST a year whose record has no non-null field
\* is not written while the other years of the payload are, and a payload of
\* invalid shape (responses missing or no object, or a year mapped to
\* something that is no record of fields) is answered 400 and writes nothing.
C16_Post == [][C16_PostStep]_vars

----------------------------------------------------------------------------
(* The contract of concurrent saves *)

C17_Unique ==
    \A r1, r2 \in store : (r1.userId = r2.userId /\ r1.year = r2.year) => r1 = r2

\* The upsert k of the call c is written in this step.
Written(c, k) ==
    /\ c \in DOMAIN saveCalls
    /\ saveCalls[c].phase[k] # "done"
    /\ saveCalls'[c].phase[k] = "done"

C17_WriteStep ==
    \A c \in DOMAIN saveCalls : \A k \in DOMAIN saveCalls[c].ops :
        Written(c, k) =>
            LET userId == saveCalls[c].userId
                year == saveCalls[c].ops[k].year
            IN  /\ Cardinality(RowsOf(store', userId, year)) = 1
                /\ Cardinality(store') =
                      IF RowsOf(store, userId, year) # {}
                      THEN Cardinality(store) ELSE Cardinality(store) + 1

\* C17: whatever the interleaving of saves and deletes, saves of one year by
\* one user at the same time included, the store holds at most one record
\* per (userId, year): a save of a year that has a record updates it in
\* place, a save of a new year creates exactly one record.
C17_OnePerUserYear == []C17_Unique /\ [][C17_WriteStep]_vars

\* Two saves of alice's 2023 ran at the same time: both looked the row up
\* before either wrote, one inserted, the other was refused.
C17_Witness ==
    /\ Len(saveCalls) = 2
    /\ saveCalls[1].userId = "alice" /\ saveCalls[2].userId = "alice"
    /\ saveCalls[1].ops[1].year = 2023 /\ saveCalls[2].ops[1].year = 2023
    /\ {saveCalls[1].phase[1], saveCalls[2].phase[1]} = {"done", "failed"}
    /\ Cardinality(RowsOf(store, "alice", 2023)) = 1

\* The upsert k of the call c leaves its row holding the payload's values
\* and nothing of what the row held before, and leaves every other row as
\* it was.
C18_WriteStep ==
    \A c \in DOMAIN saveCalls : \A k \in DOMAIN saveCalls[c].ops :
        Written(c, k) =>
            LET userId == saveCalls[c].userId
                year == saveCalls[c].ops[k].year
                payload == saveCalls[c].ops[k].data
            IN  /\ \A r \in RowsOf(store', userId, year) :
                      \A f \in ESGFields :
                          r.data[f] = IF payload[f] = Undefined THEN Null ELSE payload[f]
                /\ store' \ RowsOf(store', userId, year)
                      = store \ RowsOf(store, userId, year)

\* C18: a write is atomic per row and the last write wins: after a save of
\* (user, year) is applied the row holds exactly the raw and derived values
\* of that save's payload, never a mixture of two payloads or of the payload
\* and the previous record; rows of other years and users are not touched.
C18_LastWriteWins == [][C18_WriteStep]_vars

----------------------------------------------------------------------------
(* The contract of verifyToken *)

SevenDaysMs == 7 * 24 * 60 * 60 * 1000

\* generateToken returned the token less than 7 days before the call.
IssuedWithinSevenDays ==
    \E i \in issued :
        /\ i.token = lastVerify.token
        /\ i.at <= lastVerify.at
        /\ lastVerify.at - i.at < SevenDaysMs

----------------------------------------------------------------------------
(* Isolation of users *)

\* What GET /api/responses answers to the user.
ResponsesOf(rows, userId) == GetHandler(rows, Bearer(Token(userId, TRUE))).responses

\* A request authenticated as user A reads and changes records of A only.
C20_IsolationStep ==
    Authenticated(lastApi'.header) =>
        LET a == lastApi'.header.token.sub
        IN  /\ \A r \in (store' \ store) \cup (store \ store') : r.userId = a
            /\ \A b \in Users \ {a} : ResponsesOf(store', b) = ResponsesOf(store, b)
            /\ lastApi'.method = "GET" =>
                  /\ DOMAIN lastApi'.responses = YearsOf(store, a)
                  /\ \A y \in DOMAIN lastApi'.responses :
                        \E r \in store : /\ r.userId = a /\ r.year = y
                                         /\ r.data = lastApi'.responses[y]

\* C20: requests authenticated as user A read, create, update and delete
\* only records whose userId is A, so what GET /responses answers to any
\* other user B is the same before and after every GET, POST and DELETE of A.
C20_Isolation == [][C20_IsolationStep]_vars

\* alice has deleted her record of a year for which bob holds one too.
C20_Witness ==
    /\ lastApi.method = "DELETE"
    /\ lastApi.status = 200
    /\ lastApi.header = Bearer(Token("alice", TRUE))
    /\ lastApi.yearParam = Key2023
    /\ \E r \in store : r.userId = "bob" /\ r.year = 2023

----------------------------------------------------------------------------
(* The list of financial years of the questionnaire *)

\* A step taken while the list holds a year leaves a year in it, and the
\* server does nothing for a removal asked while the list held one year.
C21_RetainStep ==
    /\ Len(years) >= 1 => Len(years') >= 1
    /\ \A i \in DOMAIN removeCalls :
          (/\ Len(removeCalls[i].years) = 1
           /\ removeCalls[i].pc = "fetch"
           /\ removeCalls'[i].pc = "answered") => store' = store

\* C21: the questionnaire always keeps at least one financial year: from a
\* list with a year in it no remove-year action leads to the empty list, and
\* removing the only year is refused, with no change locally or in the store.
C21_RetainsOneYear == [][C21_RetainStep]_vars

\* With no token in the browser the first step of the page goes to /login,
\* and so does the step that takes a 401 from GET /api/responses.
C22_RedirectStep ==
    /\ (authToken = NoToken /\ location = "/questionnaire" /\ vars' # vars)
          => location' = "/login"
    /\ (/\ pagePc = "awaitLoad" /\ pagePc' = "idle"
        /\ response.kind = "http" /\ response.status = 401)
          => location' = "/login"

\* C22: on an authenticated page an authentication failure sends the user to
\* the login page, both when the browser holds no token as the page loads
\* and when /api/responses answers 401.
C22_AuthFailureRedirects == [][C22_RedirectStep]_vars

----------------------------------------------------------------------------
(* Exceptions at the boundary *)

----------------------------------------------------------------------------
(* calculateESGMetrics as a function *)

\* The metrics shown are the four derived fields and nothing else, and a
\* second call on the record shown returns what the first returned.
C24_Result ==
    /\ DOMAIN calculatedData = DerivedFields
    /\ calculatedData = calculateESGMetrics(yearData)

\* A change of one field changes that field of the record and no other:
\* the call that recalculates the metrics leaves its argument as it was.
C24_InputKept ==
    edits' = edits + 1 =>
        /\ Cardinality({f \in ESGFields : yearData'[f] # yearData[f]}) <= 1
        /\ \A f \in DerivedFields : yearData'[f] = yearData[f]

----------------------------------------------------------------------------
(* A save comes to an end *)

\* C25: a save started from the questionnaire finishes: whatever becomes of
\* the POST and of the refresh GET (success, error status, network failure,
\* no token), isSubmitting, set when the save starts, is set back to false.
C25_SaveFinishes == isSubmitting ~> ~isSubmitting

\* The save is waiting for its refresh GET.
C25_Witness ==
    /\ isSubmitting
    /\ pagePc = "awaitRefresh"
    /\ request.method = "GET"

----------------------------------------------------------------------------
(* Concurrent signups *)

Emails == {u.email : u \in users} \cup {authCalls[i].email : i \in DOMAIN authCalls}

Created(email) ==
    {i \in DOMAIN authCalls : /\ authCalls[i].op = "signup"
                              /\ authCalls[i].email = email
                              /\ authCalls[i].status = 201}

\* C26: however concurrent signup requests with the same email interleave,
\* at most one of them is answered 201 and at most one User row holds the
\* email, although the lookup and the insert are two store operations.
C26_OneAccountPerEmail ==
    \A email \in Emails :
        /\ Cardinality(Created(email)) <= 1
        /\ Cardinality(FindUnique(users, email)) <= 1

\* Two signups with one email both found no user; both have been answered.
C26_Witness ==
    \E i, j \in DOMAIN authCalls :
        /\ i # j
        /\ authCalls[i].op = "signup" /\ authCalls[j].op = "signup"
        /\ authCalls[i].email = authCalls[j].email
        /\ authCalls[i].status = 201
        /\ authCalls[j].pc = "done" /\ ~authCalls[j].existed
        /\ authCalls[j].status = 500

----------------------------------------------------------------------------
(* Adding and removing years *)

\* A call of handleRemoveYear runs on from its await in this step.
Finishing(i) ==
    /\ i \in DOMAIN removeCalls
    /\ removeCalls[i].pc = "answered"
    /\ removeCalls'[i].pc = "done"

\* When a removal completes, every other year of the list stays in it.
C27_OthersKeptStep ==
    \A i \in DOMAIN removeCalls :
        Finishing(i) =>
            \A k \in DOMAIN years :
                years[k] # removeCalls[i].year => Includes(years', years[k])

\* C27: a year added with handleConfirmAddYear while a handleRemoveYear call
\* for another year waits for the server is still in the list of years when
\* the removal has completed: the removal drops the removed year from the
\* list as it is when it completes.
C27_AddedYearKept == [][C27_OthersKeptStep]_vars

\* A call with a token drops its year from the list and from the data when
\* it runs on, whatever the answer; a call without a token changes neither.
C28_RemoveStep ==
    /\ \A i \in DOMAIN removeCalls :
          Finishing(i) =>
              /\ removeCalls[i].header # NoHeader
              /\ ~Includes(years', removeCalls[i].year)
              /\ removeCalls[i].year \notin DOMAIN initialFetchedData'
    /\ \A i \in DOMAIN removeCalls' \ DOMAIN removeCalls :
          /\ removeCalls'[i].header = NoHeader <=> authToken = NoToken
          /\ removeCalls'[i].pc = "returned" <=> authToken = NoToken
          /\ authToken = NoToken =>
                /\ years' = years
                /\ initialFetchedData' = initialFetchedData
                /\ activeYear' = activeYear
                /\ store' = store

\* C28: with a token present handleRemoveYear removes the year from the
\* local list and the local data whatever the DELETE request came to (200,
\* 404, 401, 500, network failure), so after a failed delete the page shows
\* the year as removed while the store still holds it; only without a token
\* is the local state left as it was.
C28_RemovedWhateverTheAnswer == [][C28_RemoveStep]_vars

\* A delete failed, the year is gone from the list, its record is stored.
C28_Witness ==
    \E i \in DOMAIN removeCalls :
        /\ removeCalls[i].pc = "done"
        /\ removeCalls[i].response.kind = "failed" \/ removeCalls[i].response.status # 200
        /\ ~Includes(years, removeCalls[i].year)
        /\ removeCalls[i].year \notin DOMAIN initialFetchedData
        /\ RowsOf(store, FormUser, removeCalls[i].year) # {}

\* The year the input holds, when it is a string of digits.
TypedYear == DigitsValue(newYearInput, 1, Len(newYearInput) + 1, 0)

Addable ==
    /\ Len(newYearInput) > 0
    /\ \A i \in DOMAIN newYearInput : IsDigit(newYearInput[i])
    /\ TypedYear >= 1900
    /\ TypedYear <= 2024
    /\ ~Includes(years, TypedYear)

\* The list has no duplicates and is sorted in descending order.
C29_SortedNoDuplicates == \A i, j \in DOMAIN years : i < j => years[i] > years[j]

\* A step of the dialog that changes the list adds the year typed, which is
\* addable; a step that changes the error sets one and leaves the list.
C29_AddStep ==
    /\ (isAddingYear /\ years' # years /\ removeCalls' = removeCalls) =>
          /\ Addable
          /\ {years'[i] : i \in DOMAIN years'} =
                {years[i] : i \in DOMAIN years} \cup {TypedYear}
          /\ Len(years') = Len(years) + 1
          /\ newYearError' = ""
    /\ (isAddingYear /\ isAddingYear' /\ newYearError' # newYearError) =>
          /\ ~Addable
          /\ newYearError' # ""
          /\ years' = years

\* C29: handleConfirmAddYear adds a year only when the input parses to an
\* integer from 1900 to 2024 that the list does not hold yet; otherwise the
\* list is left as it is and an error is set.  After any sequence of adds
\* and removes the list has no duplicates and is sorted descending.
C29_AddYear == []C29_SortedNoDuplicates /\ [][C29_AddStep]_vars

\* A year was added to a list that held a year, and a year was refused.
C29_Witness ==
    /\ Len(years) >= 2
    /\ \E i \in DOMAIN years : years[i] \notin StoredYears
    /\ isAddingYear
    /\ newYearError # ""

(* The messages shown under the fields *)

\* The violations pushed for a field by the submit of this step.
ViolationsOf(errs, field) == {i \in DOMAIN errs : errs[i].field = field}

\* A submit shows, for every field with a violation, the message pushed
\* last for it and nothing else; a negative board percentage violates two
\* rules and shows the message of the range rule.
C30_LastMessageStep ==
    (lastSubmit' # lastSubmit /\ lastSubmit'.ran) =>
        LET errs == lastSubmit'.errors
            board == yearData.independentBoardMembers
        IN  /\ DOMAIN fieldErrors' = {errs[i].field : i \in DOMAIN errs}
            /\ \A i \in DOMAIN errs :
                  (\A j \in DOMAIN errs : j > i => errs[j].field # errs[i].field)
                      => fieldErrors'[errs[i].field] = errs[i].message
            /\ Cardinality(DOMAIN fieldErrors') <= Len(errs)
            /\ (TypeofNumber(board) /\ JsLt(board, Int2Num(0))) =>
                  /\ Cardinality(ViolationsOf(errs, "independentBoardMembers")) = 2
                  /\ fieldErrors'.independentBoardMembers = BoardRangeMessage

\* C30: the field errors of the per-year form hold at most one message per
\* field: when several rules are violated for one field (a board percentage
\* below 0 violates the non-negativity rule and the 0-100 range rule) only
\* the message of the rule evaluated last is kept, so fewer violations may be
\* shown than rules were violated, while every field with a violation shows
\* exactly one message.
C30_LastRuleWins == [][C30_LastMessageStep]_vars

\* A submit found two violations for the board percentage and shows one.
C30_Witness ==
    /\ lastSubmit.ran
    /\ lastSubmit.data = yearData
    /\ Cardinality(ViolationsOf(lastSubmit.errors, "independentBoardMembers")) = 2
    /\ "independentBoardMembers" \in DOMAIN fieldErrors
    /\ fieldErrors.independentBoardMembers = BoardRangeMessage
    /\ Cardinality(DOMAIN fieldErrors) < Len(lastSubmit.errors)

====
